---- MODULE Spec2Model ----
(***************************************************************************)
(* The engine client of src/services/engineService.ts: getBestMove and its *)
(* three provider adapters (fetchCustomAPI, fetchChessApiCom,              *)
(* fetchStockfishOnline with fetchStockfishOnlineSimple), the helpers      *)
(* cleanMove and parseScoreStandard, the abort timers of the adapters and  *)
(* the network the requests travel on.                                     *)
(***************************************************************************)
EXTENDS Integers, Sequences, FiniteSets, TLC

(***************************************************************************)
(* JavaScript values.  A number is kept in thousandths (m = 1000 * value), *)
(* so that decimal pawn scores and Math.round are computed exactly.  A     *)
(* string is the sequence of its atoms: an atom is one whitespace          *)
(* character (" " or "\t") or one maximal run of other characters.         *)
(***************************************************************************)
Scale == 10 * 10 * 10

Undefined == [t |-> "undefined"]

Null == [t |-> "null"]

NaN == [t |-> "nan"]

Num(m) == [t |-> "number", m |-> m]

Whole(n) == Num(n * Scale)

Str(s) == [t |-> "string", s |-> s]

Arr(a) == [t |-> "array", a |-> a]

\* typeof v === 'number' (NaN is a number)
IsNumber(v) == v.t \in {"number", "nan"}

IsInteger(v) == v.t = "number" /\ v.m % Scale = 0

\* ToBoolean(v), the test of `!v`, `v || w` and `if (v)`
Truthy(v) ==
    CASE v.t \in {"undefined", "null", "nan"} -> FALSE
      [] v.t = "number" -> v.m # 0
      [] v.t = "string" -> v.s # <<>>
      [] v.t = "boolean" -> v.b
      [] OTHER -> TRUE

\* v || w
Or(v, w) == IF Truthy(v) THEN v ELSE w

\* Array.isArray(v)
IsArray(v) == v.t = "array"

\* v * 100 (ToNumber(null) = 0, ToNumber(undefined) = NaN)
Times100(v) ==
    CASE v.t = "number" -> Num(v.m * 100)
      [] v.t = "null" -> Num(0)
      [] OTHER -> NaN

\* Math.round(v): the nearest integer, halves towards +Infinity
MathRound(v) ==
    CASE v.t = "number" -> Num(((v.m + (Scale \div 2)) \div Scale) * Scale)
      [] v.t = "null" -> Num(0)
      [] OTHER -> NaN

\* Math.min(a, b) on numbers
MathMin(a, b) == IF a.m <= b.m THEN a ELSE b

(***************************************************************************)
(* Strings.                                                                *)
(***************************************************************************)
Whitespace == {" ", "\t"}

RECURSIVE TrimStart(_)
TrimStart(s) ==
    IF s # <<>> /\ Head(s) \in Whitespace THEN TrimStart(Tail(s)) ELSE s

RECURSIVE TrimEnd(_)
TrimEnd(s) ==
    IF s # <<>> /\ s[Len(s)] \in Whitespace
    THEN TrimEnd(SubSeq(s, 1, Len(s) - 1))
    ELSE s

\* String.prototype.trim
Trim(s) == TrimEnd(TrimStart(s))

\* s.split(' ')[0]: the atoms before the first space character
RECURSIVE FirstField(_)
FirstField(s) ==
    IF s = <<>> \/ Head(s) = " " THEN <<>> ELSE <<Head(s)>> \o FirstField(Tail(s))

\* s.startsWith('bestmove ')
StartsWithBestmove(s) == Len(s) >= 2 /\ s[1] = "bestmove" /\ s[2] = " "

\* cleanMove returns "" for a falsy rawMove, and calls rawMove.trim otherwise,
\* which throws a TypeError when rawMove is no string.
CleanMoveThrows(rawMove) == Truthy(rawMove) /\ rawMove.t # "string"

cleanMove(rawMove) ==
    IF ~Truthy(rawMove) THEN Str(<<>>)
    ELSE LET clean == Trim(rawMove.s)
             stripped == IF StartsWithBestmove(clean)
                         THEN Trim(SubSeq(clean, 3, Len(clean)))
                         ELSE clean
         IN  Str(FirstField(stripped))

(***************************************************************************)
(* Numerals: the atoms that parseInt and parseFloat read as a number, with *)
(* the value parseFloat gives them, in thousandths.                        *)
(***************************************************************************)
NumeralValue ==
    [a \in {"0", "3", "-3", "+3", "35", "-120", "0.34", "12.5", "-0.5"} |->
        CASE a = "0" -> 0
          [] a = "3" -> 3 * Scale
          [] a = "-3" -> (-3) * Scale
          [] a = "+3" -> 3 * Scale
          [] a = "35" -> 35 * Scale
          [] a = "-120" -> (-120) * Scale
          [] a = "0.34" -> 340
          [] a = "12.5" -> 12500
          [] a = "-0.5" -> -500]

IsNumeral(a) == a \in DOMAIN NumeralValue

\* the integer part, towards zero
Truncate(m) == IF m >= 0 THEN (m \div Scale) * Scale ELSE -(((-m) \div Scale) * Scale)

\* parseFloat(s): leading whitespace is skipped, then the longest numeric prefix
parseFloat(s) ==
    LET t == TrimStart(s)
    IN  IF t # <<>> /\ IsNumeral(Head(t)) THEN Num(NumeralValue[Head(t)]) ELSE NaN

\* parseInt(s, 10): as parseFloat, stopping at the decimal point
parseInt(s) ==
    LET t == TrimStart(s)
    IN  IF t # <<>> /\ IsNumeral(Head(t)) THEN Num(Truncate(NumeralValue[Head(t)])) ELSE NaN

\* String.prototype.toLowerCase, per atom
LowerAtom(a) ==
    CASE a \in {"mate", "Mate", "MATE"} -> "mate"
      [] a \in {"cp", "Cp", "CP"} -> "cp"
      [] OTHER -> a

toLowerCase(s) == [i \in 1..Len(s) |-> LowerAtom(s[i])]

\* s.includes(marker)
Includes(s, marker) == \E i \in 1..Len(s) : s[i] = marker

\* s.replace(marker, ''): the first occurrence is removed
RECURSIVE RemoveFirst(_, _)
RemoveFirst(s, marker) ==
    IF s = <<>> THEN <<>>
    ELSE IF Head(s) = marker THEN Tail(s)
    ELSE <<Head(s)>> \o RemoveFirst(Tail(s), marker)

\* isNaN(v) ? 0 : v
ZeroIfNaN(v) == IF v.t = "nan" THEN Num(0) ELSE v

Evaluation(type, value) == [type |-> type, value |-> value]

\* variant: the markers are looked for in the text as it came
parseScoreStandard_CaseSensitive(score) ==
    IF score.t = "string"
    THEN IF Includes(score.s, "mate")
         THEN Evaluation("mate", ZeroIfNaN(parseInt(Trim(RemoveFirst(score.s, "mate")))))
         ELSE IF Includes(score.s, "cp")
         THEN Evaluation("cp", ZeroIfNaN(parseFloat(Trim(RemoveFirst(score.s, "cp")))))
         ELSE IF parseFloat(score.s).t # "nan"
         THEN Evaluation("cp", parseFloat(score.s))
         ELSE Evaluation("cp", Num(0))
    ELSE IF IsNumber(score) THEN Evaluation("cp", score)
    ELSE Evaluation("cp", Num(0))

parseScoreStandard(score) ==
    IF score.t = "string"
    THEN LET lower == toLowerCase(score.s)
         IN  IF Includes(lower, "mate")
             THEN Evaluation("mate", ZeroIfNaN(parseInt(Trim(RemoveFirst(lower, "mate")))))
             ELSE IF Includes(lower, "cp")
             THEN Evaluation("cp", ZeroIfNaN(parseFloat(Trim(RemoveFirst(lower, "cp")))))
             ELSE IF parseFloat(score.s).t # "nan"
             THEN Evaluation("cp", parseFloat(score.s))
             ELSE Evaluation("cp", Num(0))
    ELSE IF IsNumber(score) THEN Evaluation("cp", score)
    ELSE Evaluation("cp", Num(0))

(***************************************************************************)
(* The canonical result and the settlement of an adapter's promise.        *)
(***************************************************************************)
Bool(b) == [t |-> "boolean", b |-> b]

EngineLine(id, move, evaluation) == [id |-> id, move |-> move, evaluation |-> evaluation]

EngineResponse(best_move, evaluation, depth, top_lines, continuation) ==
    [t |-> "object", best_move |-> best_move, evaluation |-> evaluation,
     depth |-> depth, top_lines |-> top_lines, continuation |-> continuation]

Resolved(value) == [kind |-> "resolved", value |-> value]

Rejected(error) == [kind |-> "rejected", error |-> error]

\* fetchStockfishOnline hands over to fetchStockfishOnlineSimple
Delegated == [kind |-> "simple"]

(***************************************************************************)
(* fetchCustomAPI, from the decoded body `data` on.                        *)
(***************************************************************************)
CustomLine(v) ==
    EngineLine(v.rank, v.move,
               IF v.score_type = Str(<<"mate">>)
               THEN Evaluation("mate", v.score)
               ELSE Evaluation("cp", MathRound(Times100(v.score))))

fetchCustomAPI(data) ==
    IF data.t # "object" THEN Rejected("TypeError")
    ELSE IF ~Truthy(data.variations) \/ ~IsArray(data.variations)
    THEN Rejected("Invalid response format from Custom API")
    ELSE LET topLines == [i \in 1..Len(data.variations.a) |-> CustomLine(data.variations.a[i])]
         IN  IF Len(topLines) = 0
             THEN Rejected("No variations returned from Custom API")
             ELSE Resolved(EngineResponse(Or(data.best_move, topLines[1].move),
                                          topLines[1].evaluation,
                                          data.depth,
                                          topLines,
                                          Undefined))

(***************************************************************************)
(* fetchChessApiCom, from the decoded body `data` on; depth is the         *)
(* caller's depth.                                                         *)
(***************************************************************************)
\* variant: the single line is not put into top_lines
fetchChessApiCom_NoLines(data, depth) ==
    IF data.t # "object" THEN Rejected("TypeError")
    ELSE IF ~Truthy(data.move) THEN Rejected("Invalid response from Chess API")
    ELSE LET evaluation ==
                 IF data.mate # Null /\ data.mate # Undefined
                 THEN Evaluation("mate", data.mate)
                 ELSE Evaluation("cp", MathRound(Or(data.eval, Num(0))))
         IN  Resolved(EngineResponse(data.move,
                                     evaluation,
                                     Or(data.depth, depth),
                                     <<>>,
                                     Or(data.continuation, Arr(<<>>))))

\* variant: the mate value is tested for truth, so mate 0 counts as absent
fetchChessApiCom_TruthyMate(data, depth) ==
    IF data.t # "object" THEN Rejected("TypeError")
    ELSE IF ~Truthy(data.move) THEN Rejected("Invalid response from Chess API")
    ELSE LET evaluation ==
                 IF Truthy(data.mate)
                 THEN Evaluation("mate", data.mate)
                 ELSE Evaluation("cp", MathRound(Or(data.eval, Num(0))))
         IN  Resolved(EngineResponse(data.move,
                                     evaluation,
                                     Or(data.depth, depth),
                                     <<EngineLine(Whole(1), data.move, evaluation)>>,
                                     Or(data.continuation, Arr(<<>>))))

fetchChessApiCom(data, depth) ==
    IF data.t # "object" THEN Rejected("TypeError")
    ELSE IF ~Truthy(data.move) THEN Rejected("Invalid response from Chess API")
    ELSE LET evaluation ==
                 IF data.mate # Null /\ data.mate # Undefined
                 THEN Evaluation("mate", data.mate)
                 ELSE Evaluation("cp", MathRound(Or(data.eval, Num(0))))
         IN  Resolved(EngineResponse(data.move,
                                     evaluation,
                                     Or(data.depth, depth),
                                     <<EngineLine(Whole(1), data.move, evaluation)>>,
                                     Or(data.continuation, Arr(<<>>))))

(***************************************************************************)
(* fetchStockfishOnline, from the decoded body `data` on; safeDepth is the *)
(* clamped depth and multipv the requested number of lines.                *)
(***************************************************************************)
\* data.lines.slice(0, multipv)
Slice(a, n) == SubSeq(a, 1, IF n < Len(a) THEN n ELSE Len(a))

\* the forEach of fetchStockfishOnline: index is the 0-based array position
RECURSIVE StockfishLines(_, _)
StockfishLines(items, index) ==
    IF items = <<>> THEN <<>>
    ELSE LET move == cleanMove(Head(items).move)
         IN  (IF ~Truthy(move)
              THEN <<>>
              ELSE <<EngineLine(Whole(index + 1), move, parseScoreStandard(Head(items).score))>>)
             \o StockfishLines(Tail(items), index + 1)

fetchStockfishOnline(data, safeDepth, multipv) ==
    IF data.t # "object" THEN Rejected("TypeError")
    ELSE IF ~Truthy(data.lines) \/ ~IsArray(data.lines) THEN Delegated
    ELSE LET items == Slice(data.lines.a, multipv.m \div Scale)
             topLines == StockfishLines(items, 0)
         IN  IF \E i \in 1..Len(items) : CleanMoveThrows(items[i].move)
             THEN Rejected("TypeError")
             ELSE IF Len(topLines) = 0
             THEN Rejected("No lines returned from Stockfish Online")
             ELSE Resolved(EngineResponse(topLines[1].move,
                                          topLines[1].evaluation,
                                          safeDepth,
                                          topLines,
                                          Undefined))

\* variant: the score of the first request mode is reported as 1 centipawn
fetchStockfishOnlineSimple_Biased(data, depth) ==
    IF data.t # "object" THEN Rejected("TypeError")
    ELSE IF ~Truthy(data.success) \/ ~Truthy(data.data)
    THEN Rejected("Stockfish Online Simple failed")
    ELSE IF CleanMoveThrows(data.data) THEN Rejected("TypeError")
    ELSE LET move == cleanMove(data.data)
         IN  Resolved(EngineResponse(move,
                                     Evaluation("cp", Whole(1)),
                                     depth,
                                     <<EngineLine(Whole(1), move, Evaluation("cp", Num(0)))>>,
                                     Undefined))

fetchStockfishOnlineSimple(data, depth) ==
    IF data.t # "object" THEN Rejected("TypeError")
    ELSE IF ~Truthy(data.success) \/ ~Truthy(data.data)
    THEN Rejected("Stockfish Online Simple failed")
    ELSE IF CleanMoveThrows(data.data) THEN Rejected("TypeError")
    ELSE LET move == cleanMove(data.data)
         IN  Resolved(EngineResponse(move,
                                     Evaluation("cp", Num(0)),
                                     depth,
                                     <<EngineLine(Whole(1), move, Evaluation("cp", Num(0)))>>,
                                     Undefined))

(***************************************************************************)
(* Program constants and the bounds of the model.                          *)
(***************************************************************************)
DefaultDepth == 15

DefaultMultipv == 3

PrimaryTimeoutMs == 8000

SecondaryTimeoutMs == 8000

SecondaryMaxDepth == 30

TertiaryMaxDepth == 12

\* the time that passes in one Tick, in ms
TickMs == 4000

\* the longest variations / lines array a provider sends
MaxLines == 2

(***************************************************************************)
(* State: one record per getBestMove call.                                 *)
(*   pc            where the call is suspended (the await it is at)        *)
(*   fen, depth, multipv   the arguments                                   *)
(*   timer         the setTimeout of fetchCustomAPI / fetchChessApiCom     *)
(*   aborted       controller.signal.aborted of the two controllers        *)
(*   net           the HTTP exchange of each request                       *)
(*   status        response.ok of each response that arrived               *)
(*   body          `data` of fetchStockfishOnline and of                   *)
(*                 fetchStockfishOnlineSimple, once decoded                *)
(*   requests      the requests issued, in order                           *)
(*   started       the adapters invoked, in order                          *)
(*   attempt       the state of each adapter's promise                     *)
(*   failure       the error each adapter rejected with                    *)
(*   adapterResult the value each adapter resolved with                    *)
(*   returned, thrown   how the promise of getBestMove settled             *)
(*   log           the console events                                      *)
(***************************************************************************)
VARIABLES calls, probe, game, panel

vars == <<calls, probe, game, panel>>

\* the components that call getBestMove are left alone by the engine client
\* and by the probes
NoGame == [mounted |-> FALSE]

NoPanel == [mounted |-> FALSE]

ProviderSet == {"primary", "secondary", "tertiary"}

TimedSet == {"primary", "secondary"}

RequestSet == {"primary", "secondary", "lines", "bestmove"}

TimerOff == [armed |-> FALSE, left |-> 0]

\* setTimeout(() => controller.abort(), ms)
setTimeout(ms) == [armed |-> TRUE, left |-> ms]

\* response.ok: whether the status of the response is in 200..299
HttpStatus(ok) == IF ok THEN "ok" ELSE "error"

NoError == "none"

TerminalError == "Engine calculation failed. Please check your internet connection."

\* the two default parameters of getBestMove
WithDefault(v, default) == IF v = Undefined THEN Whole(default) ELSE v

NewCall(fen, depth, multipv) ==
    [pc |-> "NotStarted", fen |-> fen, depth |-> depth, multipv |-> multipv,
     timer |-> [p \in TimedSet |-> TimerOff],
     aborted |-> [p \in TimedSet |-> FALSE],
     net |-> [r \in RequestSet |-> "none"],
     status |-> [r \in RequestSet |-> "none"],
     body |-> [r \in {"lines", "bestmove"} |-> Undefined],
     requests |-> <<>>,
     started |-> <<>>,
     attempt |-> [p \in ProviderSet |-> "idle"],
     failure |-> [p \in ProviderSet |-> NoError],
     adapterResult |-> [p \in ProviderSet |-> Undefined],
     returned |-> Undefined,
     thrown |-> NoError,
     log |-> <<>>]

Request(to, method, mode, fen, depth, multipv) ==
    [to |-> to, method |-> method, mode |-> mode, fen |-> fen, depth |-> depth,
     multipv |-> multipv]

\* the depth sent to stockfish.online
safeDepth(call) == MathMin(call.depth, Whole(TertiaryMaxDepth))

\* the synchronous part of each adapter: controller, timer and fetch
StartAdapter(call, p) ==
    LET invoked == [call EXCEPT !.started = Append(@, p), !.attempt[p] = "running"]
    IN  CASE p = "primary" ->
               [invoked EXCEPT
                   !.pc = "primary_fetch",
                   !.aborted.primary = FALSE,
                   !.timer.primary = setTimeout(PrimaryTimeoutMs),
                   !.net.primary = "inflight",
                   !.requests = Append(@, Request("primary", "POST", "none", call.fen,
                                                  call.depth, call.multipv))]
          [] p = "secondary" ->
               [invoked EXCEPT
                   !.pc = "secondary_fetch",
                   !.aborted.secondary = FALSE,
                   !.timer.secondary = setTimeout(SecondaryTimeoutMs),
                   !.net.secondary = "inflight",
                   !.requests = Append(@, Request("secondary", "POST", "none", call.fen,
                                                  MathMin(call.depth, Whole(SecondaryMaxDepth)),
                                                  Undefined))]
          [] p = "tertiary" ->
               [invoked EXCEPT
                   !.pc = "tertiary_fetch",
                   !.net.lines = "inflight",
                   !.requests = Append(@, Request("tertiary", "GET", "lines", call.fen,
                                                  safeDepth(call), Undefined))]

\* variant: the second request asks for mode=lines again
StartSimple_LinesAgain(call) ==
    [call EXCEPT
        !.pc = "simple_fetch",
        !.net.bestmove = "inflight",
        !.requests = Append(@, Request("tertiary", "GET", "lines", call.fen,
                                       safeDepth(call), Undefined))]

\* return fetchStockfishOnlineSimple(fen, safeDepth): the second request
StartSimple(call) ==
    [call EXCEPT
        !.pc = "simple_fetch",
        !.net.bestmove = "inflight",
        !.requests = Append(@, Request("tertiary", "GET", "bestmove", call.fen,
                                       safeDepth(call), Undefined))]

(***************************************************************************)
(* getBestMove: what follows the settlement of an adapter's promise.       *)
(***************************************************************************)
\* variant: the secondary provider is left out
NextProvider_SkipsSecondary(p) ==
    CASE p = "primary" -> "tertiary"
      [] OTHER -> "none"

\* variant: the last provider is tried again
NextProvider_Retries(p) ==
    CASE p = "primary" -> "secondary"
      [] OTHER -> "tertiary"

\* the provider getBestMove turns to when p has failed
NextProvider(p) ==
    CASE p = "primary" -> "secondary"
      [] p = "secondary" -> "tertiary"
      [] OTHER -> "none"

\* variant: the last adapter is returned without a try block
Catches_NotTertiary(p) == p \in {"primary", "secondary"}

\* each adapter is awaited inside its own try block
Catches(p) == p \in ProviderSet

\* variant: every catch block logs with console.warn
LogEvent_AlwaysWarn(p) == [level |-> "warn", provider |-> p]

\* console.warn in the first two catch blocks, console.error in the third
LogEvent(p) == [level |-> IF p = "tertiary" THEN "error" ELSE "warn", provider |-> p]

\* variant: the result of the primary adapter is awaited but not returned
AdapterResolves_FallsThrough(call, p, value) ==
    LET resolved == [call EXCEPT !.attempt[p] = "resolved", !.adapterResult[p] = value]
    IN  IF p = "primary"
        THEN StartAdapter(resolved, "secondary")
        ELSE [resolved EXCEPT !.returned = value, !.pc = "Succeeded"]

\* return await fetch...(...)
AdapterResolves(call, p, value) ==
    [call EXCEPT
        !.attempt[p] = "resolved",
        !.adapterResult[p] = value,
        !.returned = value,
        !.pc = "Succeeded"]

\* variant: the catch block of the secondary attempt logs nothing
AdapterRejects_SilentSecondary(call, p, error) ==
    LET failed == [call EXCEPT !.attempt[p] = "rejected", !.failure[p] = error]
        logged == IF p = "secondary"
                  THEN failed
                  ELSE [failed EXCEPT !.log = Append(@, LogEvent(p))]
    IN  IF ~Catches(p)
        THEN [failed EXCEPT !.pc = "Rejected", !.thrown = error]
        ELSE IF NextProvider(p) = "none"
        THEN [logged EXCEPT !.pc = "AllFailed", !.thrown = TerminalError]
        ELSE StartAdapter(logged, NextProvider(p))

\* variant: exhaustion returns an empty result instead of throwing
AdapterRejects_EmptyResult(call, p, error) ==
    LET failed == [call EXCEPT !.attempt[p] = "rejected", !.failure[p] = error]
        logged == [failed EXCEPT !.log = Append(@, LogEvent(p))]
    IN  IF ~Catches(p)
        THEN [failed EXCEPT !.pc = "Rejected", !.thrown = error]
        ELSE IF NextProvider(p) = "none"
        THEN [logged EXCEPT
                 !.pc = "Succeeded",
                 !.returned = EngineResponse(Str(<<>>), Evaluation("cp", Num(0)),
                                             call.depth, <<>>, Undefined)]
        ELSE StartAdapter(logged, NextProvider(p))

AdapterRejects(call, p, error) ==
    LET failed == [call EXCEPT !.attempt[p] = "rejected", !.failure[p] = error]
        logged == [failed EXCEPT !.log = Append(@, LogEvent(p))]
    IN  IF ~Catches(p)
        THEN [failed EXCEPT !.pc = "Rejected", !.thrown = error]
        ELSE IF NextProvider(p) = "none"
        THEN [logged EXCEPT !.pc = "AllFailed", !.thrown = TerminalError]
        ELSE StartAdapter(logged, NextProvider(p))

\* variant: the catch block rethrows without clearTimeout
CatchAndRethrow_KeepsTimer(call, p, error) ==
    AdapterRejects(call, p, error)

\* the catch block of fetchCustomAPI and of fetchChessApiCom:
\* clearTimeout(timeoutId); throw error
CatchAndRethrow(call, p, error) ==
    AdapterRejects([call EXCEPT !.timer[p] = TimerOff], p, error)

Settle(call, p, outcome) ==
    IF outcome.kind = "resolved"
    THEN AdapterResolves(call, p, outcome.value)
    ELSE IF p \in TimedSet
    THEN CatchAndRethrow(call, p, outcome.error)
    ELSE AdapterRejects(call, p, outcome.error)

(***************************************************************************)
(* What the caller passes and what the providers may send.                 *)
(***************************************************************************)
StartFen == "rnbqkbnr/pppppppp/8/8/8/8/PPPPPPPP/RNBQKBNR w KQkq - 0 1"

Depths == {Undefined, Whole(10), Whole(13), Whole(31)}

MultiPVs == {Undefined, Whole(1)}

SeqsUpTo(S, n) == UNION {[1..k -> S] : k \in 0..n}

Variation(rank, move, score_type, score) ==
    [t |-> "object", rank |-> rank, move |-> move, score_type |-> score_type,
     score |-> score]

PrimaryVariations ==
    {Variation(Whole(1), Str(<<"e2e4">>), Str(<<"cp">>), Num(340)),
     Variation(Whole(2), Str(<<"d2d4">>), Str(<<"cp">>), Num(-1205)),
     Variation(Whole(1), Str(<<"d1h5">>), Str(<<"mate">>), Whole(3)),
     Variation(Undefined, Undefined, Undefined, Undefined)}

PrimaryBodies ==
    {Null} \cup
    {[t |-> "object", variations |-> v, best_move |-> b, depth |-> d] :
        v \in {Undefined, Str(<<"none">>)}
              \cup {Arr(a) : a \in SeqsUpTo(PrimaryVariations, MaxLines)},
        b \in {Undefined, Str(<<"e2e4">>), Str(<<"g1f3">>)},
        d \in {Undefined, Whole(15)}}

SecondaryBodies ==
    {Null} \cup
    {[t |-> "object", move |-> m, mate |-> k, eval |-> e, depth |-> d,
      continuation |-> c] :
        m \in {Undefined, Str(<<>>), Str(<<"e2e4">>), Str(<<"d1h5">>)},
        k \in {Null, Undefined, Whole(3), Whole(0)},
        e \in {Undefined, Whole(35), Num(-12500)},
        d \in {Undefined, Whole(15)},
        c \in {Undefined, Arr(<<Str(<<"e7e5">>)>>)}}

LineItem(move, score) == [t |-> "object", move |-> move, score |-> score]

TertiaryItems ==
    {LineItem(Str(<<"e2e4">>), Whole(35)),
     LineItem(Str(<<"bestmove", " ", "d2d4", " ", "ponder", " ", "e7e5">>),
              Str(<<"Mate", " ", "-3">>)),
     LineItem(Str(<<" ", "g1f3", " ">>), Str(<<"cp", " ", "12.5">>)),
     LineItem(Str(<<" ">>), Whole(0)),
     LineItem(Undefined, Undefined),
     LineItem(Whole(7), Whole(0))}

TertiaryBodies ==
    {Null} \cup
    {[t |-> "object", lines |-> l] :
        l \in {Undefined, Str(<<"none">>)}
              \cup {Arr(a) : a \in SeqsUpTo(TertiaryItems, MaxLines)}}

SimpleBodies ==
    {Null} \cup
    {[t |-> "object", success |-> ok, data |-> d] :
        ok \in {Undefined, Bool(FALSE), Bool(TRUE)},
        d \in {Undefined, Str(<<"bestmove", " ", "e2e4", " ", "ponder", " ", "e7e5">>),
               Str(<<"e2e4">>), Str(<<" ">>), Whole(7)}}

CallIds == {"call"}

Init ==
    /\ calls \in [CallIds -> {NewCall(StartFen, d, m) : d \in Depths, m \in MultiPVs}]
    /\ probe = [pc |-> "idle", fn |-> "none", input |-> Undefined, output |-> Undefined,
                again |-> Undefined]
    /\ game = NoGame
    /\ panel = NoPanel

(***************************************************************************)
(* The caller invokes getBestMove: the default parameters are filled in    *)
(* and fetchCustomAPI runs up to its await of fetch.                       *)
(***************************************************************************)
getBestMove(c) ==
    /\ calls[c].pc = "NotStarted"
    /\ calls' = [calls EXCEPT ![c] =
           StartAdapter([@ EXCEPT !.depth = WithDefault(@, DefaultDepth),
                                  !.multipv = WithDefault(@, DefaultMultipv)],
                        "primary")]
    /\ UNCHANGED <<probe, game, panel>>

(***************************************************************************)
(* fetchCustomAPI (primary).                                               *)
(***************************************************************************)
\* fetch resolves with the response headers: clearTimeout, then response.ok
PrimaryResponds(c, ok) ==
    /\ calls[c].pc = "primary_fetch"
    /\ calls[c].net.primary = "inflight"
    /\ LET cleared == [calls[c] EXCEPT !.timer.primary = TimerOff,
                                       !.net.primary = "headers",
                                       !.status.primary = HttpStatus(ok)]
       IN  calls' = [calls EXCEPT ![c] =
               IF ok
               THEN [cleared EXCEPT !.pc = "primary_json"]
               ELSE CatchAndRethrow(cleared, "primary", "Custom API Error Status")]
    /\ UNCHANGED <<probe, game, panel>>

\* fetch rejects: no connection
PrimaryNetworkError(c) ==
    /\ calls[c].pc = "primary_fetch"
    /\ calls[c].net.primary = "inflight"
    /\ calls' = [calls EXCEPT ![c] =
           CatchAndRethrow([@ EXCEPT !.net.primary = "failed"], "primary", "NetworkError")]
    /\ UNCHANGED <<probe, game, panel>>

\* variant: the signal of the controller is not passed to fetch
PrimaryTimeout_NoSignal(c) ==
    /\ calls[c].timer.primary.armed
    /\ calls[c].timer.primary.left = 0
    /\ calls' = [calls EXCEPT ![c].timer.primary = TimerOff,
                              ![c].aborted.primary = TRUE]
    /\ UNCHANGED <<probe, game, panel>>

\* the timer of fetchCustomAPI fires: controller.abort() rejects the pending
\* fetch (or the pending body read) with an AbortError
PrimaryTimeout(c) ==
    /\ calls[c].timer.primary.armed
    /\ calls[c].timer.primary.left = 0
    /\ LET fired == [calls[c] EXCEPT !.timer.primary = TimerOff,
                                     !.aborted.primary = TRUE]
       IN  calls' = [calls EXCEPT ![c] =
               IF fired.pc \in {"primary_fetch", "primary_json"}
               THEN CatchAndRethrow([fired EXCEPT !.net.primary = "aborted"],
                                    "primary", "AbortError")
               ELSE fired]
    /\ UNCHANGED <<probe, game, panel>>

\* response.json() resolves with the decoded body
PrimaryBody(c, data) ==
    /\ calls[c].pc = "primary_json"
    /\ calls[c].net.primary = "headers"
    /\ calls' = [calls EXCEPT ![c] =
           Settle([@ EXCEPT !.net.primary = "done"], "primary", fetchCustomAPI(data))]
    /\ UNCHANGED <<probe, game, panel>>

\* response.json() rejects: the body is no JSON, or the connection broke
PrimaryBodyError(c) ==
    /\ calls[c].pc = "primary_json"
    /\ calls[c].net.primary = "headers"
    /\ calls' = [calls EXCEPT ![c] =
           CatchAndRethrow([@ EXCEPT !.net.primary = "failed"], "primary", "SyntaxError")]
    /\ UNCHANGED <<probe, game, panel>>

\* the provider answers a request that was aborted: the response is dropped
PrimaryLateResponse(c) ==
    /\ calls[c].net.primary = "aborted"
    /\ calls' = [calls EXCEPT ![c].net.primary = "dropped"]
    /\ UNCHANGED <<probe, game, panel>>

(***************************************************************************)
(* fetchChessApiCom (secondary).                                           *)
(***************************************************************************)
SecondaryResponds(c, ok) ==
    /\ calls[c].pc = "secondary_fetch"
    /\ calls[c].net.secondary = "inflight"
    /\ LET cleared == [calls[c] EXCEPT !.timer.secondary = TimerOff,
                                       !.net.secondary = "headers",
                                       !.status.secondary = HttpStatus(ok)]
       IN  calls' = [calls EXCEPT ![c] =
               IF ok
               THEN [cleared EXCEPT !.pc = "secondary_json"]
               ELSE CatchAndRethrow(cleared, "secondary", "Chess API Error")]
    /\ UNCHANGED <<probe, game, panel>>

SecondaryNetworkError(c) ==
    /\ calls[c].pc = "secondary_fetch"
    /\ calls[c].net.secondary = "inflight"
    /\ calls' = [calls EXCEPT ![c] =
           CatchAndRethrow([@ EXCEPT !.net.secondary = "failed"], "secondary",
                           "NetworkError")]
    /\ UNCHANGED <<probe, game, panel>>

\* variant: one controller at module level, shared by every call
SecondaryTimeout_SharedController(c) ==
    /\ calls[c].timer.secondary.armed
    /\ calls[c].timer.secondary.left = 0
    /\ calls' = [d \in DOMAIN calls |->
           LET fired == [calls[d] EXCEPT !.timer.secondary = TimerOff,
                                         !.aborted.secondary = TRUE]
           IN  IF calls[d].pc \in {"secondary_fetch", "secondary_json"}
               THEN CatchAndRethrow([fired EXCEPT !.net.secondary = "aborted"],
                                    "secondary", "AbortError")
               ELSE IF d = c THEN fired ELSE calls[d]]
    /\ UNCHANGED <<probe, game, panel>>

\* the timer of fetchChessApiCom fires
SecondaryTimeout(c) ==
    /\ calls[c].timer.secondary.armed
    /\ calls[c].timer.secondary.left = 0
    /\ LET fired == [calls[c] EXCEPT !.timer.secondary = TimerOff,
                                     !.aborted.secondary = TRUE]
       IN  calls' = [calls EXCEPT ![c] =
               IF fired.pc \in {"secondary_fetch", "secondary_json"}
               THEN CatchAndRethrow([fired EXCEPT !.net.secondary = "aborted"],
                                    "secondary", "AbortError")
               ELSE fired]
    /\ UNCHANGED <<probe, game, panel>>

SecondaryBody(c, data) ==
    /\ calls[c].pc = "secondary_json"
    /\ calls[c].net.secondary = "headers"
    /\ calls' = [calls EXCEPT ![c] =
           Settle([@ EXCEPT !.net.secondary = "done"], "secondary",
                  fetchChessApiCom(data, calls[c].depth))]
    /\ UNCHANGED <<probe, game, panel>>

SecondaryBodyError(c) ==
    /\ calls[c].pc = "secondary_json"
    /\ calls[c].net.secondary = "headers"
    /\ calls' = [calls EXCEPT ![c] =
           CatchAndRethrow([@ EXCEPT !.net.secondary = "failed"], "secondary",
                           "SyntaxError")]
    /\ UNCHANGED <<probe, game, panel>>

SecondaryLateResponse(c) ==
    /\ calls[c].net.secondary = "aborted"
    /\ calls' = [calls EXCEPT ![c].net.secondary = "dropped"]
    /\ UNCHANGED <<probe, game, panel>>

(***************************************************************************)
(* fetchStockfishOnline and fetchStockfishOnlineSimple (tertiary): no      *)
(* controller and no timer.                                                *)
(***************************************************************************)
TertiaryResponds(c, ok) ==
    /\ calls[c].pc = "tertiary_fetch"
    /\ calls[c].net.lines = "inflight"
    /\ LET got == [calls[c] EXCEPT !.net.lines = "headers",
                                   !.status.lines = HttpStatus(ok)]
       IN  calls' = [calls EXCEPT ![c] =
               IF ok
               THEN [got EXCEPT !.pc = "tertiary_json"]
               ELSE AdapterRejects(got, "tertiary", "Stockfish Online HTTP Error")]
    /\ UNCHANGED <<probe, game, panel>>

TertiaryNetworkError(c) ==
    /\ calls[c].pc = "tertiary_fetch"
    /\ calls[c].net.lines = "inflight"
    /\ calls' = [calls EXCEPT ![c] =
           AdapterRejects([@ EXCEPT !.net.lines = "failed"], "tertiary", "NetworkError")]
    /\ UNCHANGED <<probe, game, panel>>

TertiaryBody(c, data) ==
    /\ calls[c].pc = "tertiary_json"
    /\ calls[c].net.lines = "headers"
    /\ LET got == [calls[c] EXCEPT !.net.lines = "done", !.body.lines = data]
           outcome == fetchStockfishOnline(data, safeDepth(got), got.multipv)
       IN  calls' = [calls EXCEPT ![c] =
               IF outcome.kind = "simple"
               THEN StartSimple(got)
               ELSE Settle(got, "tertiary", outcome)]
    /\ UNCHANGED <<probe, game, panel>>

TertiaryBodyError(c) ==
    /\ calls[c].pc = "tertiary_json"
    /\ calls[c].net.lines = "headers"
    /\ calls' = [calls EXCEPT ![c] =
           AdapterRejects([@ EXCEPT !.net.lines = "failed"], "tertiary", "SyntaxError")]
    /\ UNCHANGED <<probe, game, panel>>

\* fetchStockfishOnlineSimple does not look at the status of the response
SimpleResponds(c, ok) ==
    /\ calls[c].pc = "simple_fetch"
    /\ calls[c].net.bestmove = "inflight"
    /\ calls' = [calls EXCEPT ![c].net.bestmove = "headers",
                              ![c].status.bestmove = HttpStatus(ok),
                              ![c].pc = "simple_json"]
    /\ UNCHANGED <<probe, game, panel>>

SimpleNetworkError(c) ==
    /\ calls[c].pc = "simple_fetch"
    /\ calls[c].net.bestmove = "inflight"
    /\ calls' = [calls EXCEPT ![c] =
           AdapterRejects([@ EXCEPT !.net.bestmove = "failed"], "tertiary", "NetworkError")]
    /\ UNCHANGED <<probe, game, panel>>

SimpleBody(c, data) ==
    /\ calls[c].pc = "simple_json"
    /\ calls[c].net.bestmove = "headers"
    /\ LET got == [calls[c] EXCEPT !.net.bestmove = "done", !.body.bestmove = data]
       IN  calls' = [calls EXCEPT ![c] =
               Settle(got, "tertiary", fetchStockfishOnlineSimple(data, safeDepth(got)))]
    /\ UNCHANGED <<probe, game, panel>>

SimpleBodyError(c) ==
    /\ calls[c].pc = "simple_json"
    /\ calls[c].net.bestmove = "headers"
    /\ calls' = [calls EXCEPT ![c] =
           AdapterRejects([@ EXCEPT !.net.bestmove = "failed"], "tertiary", "SyntaxError")]
    /\ UNCHANGED <<probe, game, panel>>

(***************************************************************************)
(* Time passes; a timer that is due fires before more time passes.         *)
(***************************************************************************)
Elapse(timer) ==
    IF timer.armed
    THEN [timer EXCEPT !.left = IF @ > TickMs THEN @ - TickMs ELSE 0]
    ELSE timer

Tick ==
    /\ \A c \in DOMAIN calls : \A p \in TimedSet :
           calls[c].timer[p].armed => calls[c].timer[p].left > 0
    /\ calls' = [c \in DOMAIN calls |->
                    [calls[c] EXCEPT !.timer = [p \in TimedSet |-> Elapse(@[p])]]]
    /\ UNCHANGED <<probe, game, panel>>

Next ==
    \/ \E c \in DOMAIN calls : getBestMove(c)
    \/ \E c \in DOMAIN calls : \E ok \in BOOLEAN : PrimaryResponds(c, ok)
    \/ \E c \in DOMAIN calls : PrimaryNetworkError(c)
    \/ \E c \in DOMAIN calls : PrimaryTimeout(c)
    \/ \E c \in DOMAIN calls : \E data \in PrimaryBodies : PrimaryBody(c, data)
    \/ \E c \in DOMAIN calls : PrimaryBodyError(c)
    \/ \E c \in DOMAIN calls : PrimaryLateResponse(c)
    \/ \E c \in DOMAIN calls : \E ok \in BOOLEAN : SecondaryResponds(c, ok)
    \/ \E c \in DOMAIN calls : SecondaryNetworkError(c)
    \/ \E c \in DOMAIN calls : SecondaryTimeout(c)
    \/ \E c \in DOMAIN calls : \E data \in SecondaryBodies : SecondaryBody(c, data)
    \/ \E c \in DOMAIN calls : SecondaryBodyError(c)
    \/ \E c \in DOMAIN calls : SecondaryLateResponse(c)
    \/ \E c \in DOMAIN calls : \E ok \in BOOLEAN : TertiaryResponds(c, ok)
    \/ \E c \in DOMAIN calls : TertiaryNetworkError(c)
    \/ \E c \in DOMAIN calls : \E data \in TertiaryBodies : TertiaryBody(c, data)
    \/ \E c \in DOMAIN calls : TertiaryBodyError(c)
    \/ \E c \in DOMAIN calls : \E ok \in BOOLEAN : SimpleResponds(c, ok)
    \/ \E c \in DOMAIN calls : SimpleNetworkError(c)
    \/ \E c \in DOMAIN calls : \E data \in SimpleBodies : SimpleBody(c, data)
    \/ \E c \in DOMAIN calls : SimpleBodyError(c)
    \/ Tick

Spec == Init /\ [][Next]_vars

(***************************************************************************)
(* Fairness.  The event loop runs every timer callback that is due and     *)
(* time passes; a call that is made starts; the body of a response whose   *)
(* headers have arrived is delivered or fails.  Nothing makes a provider   *)
(* answer a request: no fairness on ...Responds and ...NetworkError.       *)
(***************************************************************************)
Fairness ==
    /\ WF_vars(Tick)
    /\ \A c \in CallIds :
        /\ WF_vars(getBestMove(c))
        /\ WF_vars(PrimaryTimeout(c))
        /\ WF_vars(SecondaryTimeout(c))
        /\ WF_vars(PrimaryBodyError(c))
        /\ WF_vars(SecondaryBodyError(c))
        /\ WF_vars(TertiaryBodyError(c))
        /\ WF_vars(SimpleBodyError(c))

FairSpec == Spec /\ Fairness

(***************************************************************************)
(* The conversions on their own: parseScoreStandard, cleanMove and the     *)
(* per-variation conversion of fetchCustomAPI are applied to one input     *)
(* drawn from a bounded set.                                               *)
(*   probe.fn      the function applied                                    *)
(*   probe.input   its argument                                            *)
(*   probe.output  what it returned                                        *)
(*   probe.again   cleanMove applied to its own output                     *)
(*   probe.pc      input, done, again, or threw (a TypeError)              *)
(* The part of each adapter that follows the decoding of the body is       *)
(* applied in the same way to one body.                                    *)
(***************************************************************************)
\* the longest score text, in atoms
MaxScoreAtoms == 3

\* the longest raw move text, in atoms
MaxMoveAtoms == 5

Markers == {"mate", "Mate", "MATE", "cp"}

ScoreAtoms == Markers \cup {" ", "3", "-3", "-120", "0", "12.5", "abc"}

\* a sequence of atoms stands for the text of its atoms joined: two numerals
\* may not touch, also not once a marker between them is removed
Separated(s) ==
    \A i, j \in 1..Len(s) :
        (i < j /\ IsNumeral(s[i]) /\ IsNumeral(s[j])) =>
            \E k \in (i + 1)..(j - 1) : s[k] \notin Markers /\ ~IsNumeral(s[k])

ScoreTexts == {s \in SeqsUpTo(ScoreAtoms, MaxScoreAtoms) : Separated(s)}

\* what a decoded JSON body can hold in a score field (never NaN)
ScoreInputs ==
    {Str(s) : s \in ScoreTexts}
        \cup {Undefined, Null, [t |-> "object"], Whole(35), Whole(-3), Num(340),
              Num(-1205)}

MoveAtoms == {"bestmove", " ", "\t", "e2e4", "ponder"}

MoveInputs ==
    {Str(s) : s \in SeqsUpTo(MoveAtoms, MaxMoveAtoms)} \cup {Undefined, Null, Whole(7)}

VariationInputs ==
    {Variation(Whole(1), Str(<<"e2e4">>), type, score) :
        type \in {Undefined, Str(<<"cp">>), Str(<<"mate">>)},
        score \in {Undefined, Whole(3), Whole(-2), Num(340), Num(-1205), Num(-500),
                   Num(5), Num(4)}}

\* a decoded body with the arguments of the adapter that reads it
Decoded(data, depth, multipv) == [data |-> data, depth |-> depth, multipv |-> multipv]

SecondaryInputs == {Decoded(data, Whole(DefaultDepth), Undefined) : data \in SecondaryBodies}

TertiaryInputs ==
    {Decoded(data, Whole(TertiaryMaxDepth), multipv) :
        data \in TertiaryBodies, multipv \in {Whole(1), Whole(DefaultMultipv)}}

NewProbe(fn, input) ==
    [pc |-> "input", fn |-> fn, input |-> input, output |-> Undefined,
     again |-> Undefined]

NormalizerInit ==
    /\ calls = [c \in CallIds |-> NewCall(StartFen, Undefined, Undefined)]
    /\ probe \in {NewProbe("parseScoreStandard", x) : x \in ScoreInputs}
                 \cup {NewProbe("cleanMove", x) : x \in MoveInputs}
                 \cup {NewProbe("CustomLine", x) : x \in VariationInputs}
                 \cup {NewProbe("fetchChessApiCom", x) : x \in SecondaryInputs}
                 \cup {NewProbe("fetchStockfishOnline", x) : x \in TertiaryInputs}
    /\ game = NoGame
    /\ panel = NoPanel

\* parseScoreStandard(item.score)
NormalizeScore ==
    /\ probe.pc = "input"
    /\ probe.fn = "parseScoreStandard"
    /\ probe' = [probe EXCEPT !.pc = "done", !.output = parseScoreStandard(probe.input)]
    /\ UNCHANGED <<calls, game, panel>>

\* cleanMove(item.move)
SanitizeMove ==
    /\ probe.pc = "input"
    /\ probe.fn = "cleanMove"
    /\ probe' = IF CleanMoveThrows(probe.input)
                THEN [probe EXCEPT !.pc = "threw"]
                ELSE [probe EXCEPT !.pc = "done", !.output = cleanMove(probe.input)]
    /\ UNCHANGED <<calls, game, panel>>

\* cleanMove applied to a move it returned
SanitizeAgain ==
    /\ probe.pc = "done"
    /\ probe.fn = "cleanMove"
    /\ probe' = [probe EXCEPT !.pc = "again", !.again = cleanMove(probe.output)]
    /\ UNCHANGED <<calls, game, panel>>

\* the callback of data.variations.map
ConvertVariation ==
    /\ probe.pc = "input"
    /\ probe.fn = "CustomLine"
    /\ probe' = [probe EXCEPT !.pc = "done", !.output = CustomLine(probe.input)]
    /\ UNCHANGED <<calls, game, panel>>

\* fetchChessApiCom from `const data = await response.json()` on
DecodeSecondary ==
    /\ probe.pc = "input"
    /\ probe.fn = "fetchChessApiCom"
    /\ probe' = [probe EXCEPT !.pc = "done",
                              !.output = fetchChessApiCom(probe.input.data, probe.input.depth)]
    /\ UNCHANGED <<calls, game, panel>>

\* fetchStockfishOnline from `const data = await response.json()` on
DecodeLines ==
    /\ probe.pc = "input"
    /\ probe.fn = "fetchStockfishOnline"
    /\ probe' = [probe EXCEPT !.pc = "done",
                              !.output = fetchStockfishOnline(probe.input.data,
                                                              probe.input.depth,
                                                              probe.input.multipv)]
    /\ UNCHANGED <<calls, game, panel>>

NormalizerNext ==
    \/ NormalizeScore
    \/ SanitizeMove
    \/ SanitizeAgain
    \/ ConvertVariation
    \/ DecodeSecondary
    \/ DecodeLines

NormalizerSpec == NormalizerInit /\ [][NormalizerNext]_vars

(***************************************************************************)
(* Two calls of getBestMove in flight together.  Each call has its own     *)
(* record: the controller, the timer and every local of an adapter are     *)
(* created per invocation, and the module holds no variable of its own.    *)
(* The providers send one usable and one unusable body each.               *)
(***************************************************************************)
ConcurrentIds == {"first", "second"}

OtherFen == "rnbqkbnr/pppppppp/8/8/4P3/8/PPPP1PPP/RNBQKBNR b KQkq - 0 1"

FenOf(c) == IF c = "first" THEN StartFen ELSE OtherFen

ConcurrentPrimaryBodies ==
    {Null,
     [t |-> "object",
      variations |-> Arr(<<Variation(Whole(1), Str(<<"e2e4">>), Str(<<"cp">>), Num(340))>>),
      best_move |-> Str(<<"e2e4">>), depth |-> Whole(15)]}

ConcurrentSecondaryBodies ==
    {Null,
     [t |-> "object", move |-> Str(<<"d1h5">>), mate |-> Whole(3), eval |-> Undefined,
      depth |-> Whole(15), continuation |-> Undefined]}

ConcurrentTertiaryBodies ==
    {[t |-> "object", lines |-> Undefined],
     [t |-> "object", lines |-> Arr(<<LineItem(Str(<<"e2e4">>), Whole(35))>>)]}

ConcurrentSimpleBodies ==
    {Null, [t |-> "object", success |-> Bool(TRUE), data |-> Str(<<"e2e4">>)]}

ConcurrentInit ==
    /\ calls = [c \in ConcurrentIds |-> NewCall(FenOf(c), Undefined, Undefined)]
    /\ probe = [pc |-> "idle", fn |-> "none", input |-> Undefined, output |-> Undefined,
                again |-> Undefined]
    /\ game = NoGame
    /\ panel = NoPanel

ConcurrentNext ==
    \/ \E c \in DOMAIN calls : getBestMove(c)
    \/ \E c \in DOMAIN calls : \E ok \in BOOLEAN : PrimaryResponds(c, ok)
    \/ \E c \in DOMAIN calls : PrimaryNetworkError(c)
    \/ \E c \in DOMAIN calls : PrimaryTimeout(c)
    \/ \E c \in DOMAIN calls : \E data \in ConcurrentPrimaryBodies : PrimaryBody(c, data)
    \/ \E c \in DOMAIN calls : PrimaryBodyError(c)
    \/ \E c \in DOMAIN calls : PrimaryLateResponse(c)
    \/ \E c \in DOMAIN calls : \E ok \in BOOLEAN : SecondaryResponds(c, ok)
    \/ \E c \in DOMAIN calls : SecondaryNetworkError(c)
    \/ \E c \in DOMAIN calls : SecondaryTimeout(c)
    \/ \E c \in DOMAIN calls : \E data \in ConcurrentSecondaryBodies : SecondaryBody(c, data)
    \/ \E c \in DOMAIN calls : SecondaryBodyError(c)
    \/ \E c \in DOMAIN calls : SecondaryLateResponse(c)
    \/ \E c \in DOMAIN calls : \E ok \in BOOLEAN : TertiaryResponds(c, ok)
    \/ \E c \in DOMAIN calls : TertiaryNetworkError(c)
    \/ \E c \in DOMAIN calls : \E data \in ConcurrentTertiaryBodies : TertiaryBody(c, data)
    \/ \E c \in DOMAIN calls : TertiaryBodyError(c)
    \/ \E c \in DOMAIN calls : \E ok \in BOOLEAN : SimpleResponds(c, ok)
    \/ \E c \in DOMAIN calls : SimpleNetworkError(c)
    \/ \E c \in DOMAIN calls : \E data \in ConcurrentSimpleBodies : SimpleBody(c, data)
    \/ \E c \in DOMAIN calls : SimpleBodyError(c)
    \/ Tick

ConcurrentSpec == ConcurrentInit /\ [][ConcurrentNext]_vars

(***************************************************************************)
(* Vocabulary of the properties.                                           *)
(***************************************************************************)
Order == <<"primary", "secondary", "tertiary">>

Position(p) == CHOOSE i \in 1..Len(Order) : Order[i] = p

\* the requests of a call that went to provider p
RequestsTo(call, p) == {i \in 1..Len(call.requests) : call.requests[i].to = p}

\* the requests of a call in a given mode of stockfish.online
RequestsInMode(call, mode) == {i \in 1..Len(call.requests) : call.requests[i].mode = mode}

\* how often adapter p was invoked
Invocations(call, p) == {i \in 1..Len(call.started) : call.started[i] = p}

IsResult(v) == v # Undefined

Terminated(call) == call.pc \in {"Succeeded", "AllFailed"}

(***************************************************************************)
(* C1: when the attempt on a provider succeeds, getBestMove returns        *)
(* exactly the value that provider's adapter resolved with, and no adapter *)
(* after it in the order is invoked and no request is sent to it.          *)
(***************************************************************************)
C1_FirstSuccessIsReturned ==
    \A c \in DOMAIN calls : \A p \in ProviderSet :
        calls[c].attempt[p] = "resolved" =>
            /\ calls[c].pc = "Succeeded"
            /\ IsResult(calls[c].adapterResult[p])
            /\ calls[c].returned = calls[c].adapterResult[p]
            /\ \A q \in ProviderSet :
                   Position(q) > Position(p) =>
                       /\ RequestsTo(calls[c], q) = {}
                       /\ calls[c].attempt[q] = "idle"

C1_Witness ==
    \E c \in DOMAIN calls :
        /\ calls[c].attempt.primary = "resolved"
        /\ IsResult(calls[c].returned)
        /\ Len(calls[c].requests) = 1

(***************************************************************************)
(* C2: the adapters are invoked in the order primary, secondary, tertiary; *)
(* an adapter is invoked only when every adapter before it has been        *)
(* rejected, and at most one attempt is running at any moment.             *)
(***************************************************************************)
C2_SequentialInOrder ==
    \A c \in DOMAIN calls :
        /\ Len(calls[c].started) <= Len(Order)
        /\ calls[c].started = SubSeq(Order, 1, Len(calls[c].started))
        /\ \A p, q \in ProviderSet :
               (Position(p) < Position(q) /\ calls[c].attempt[q] # "idle")
                   => calls[c].attempt[p] = "rejected"
        /\ Cardinality({p \in ProviderSet : calls[c].attempt[p] = "running"}) <= 1

C2_Witness ==
    \E c \in DOMAIN calls :
        /\ calls[c].started = Order
        /\ calls[c].attempt.tertiary = "running"
        /\ calls[c].attempt.primary = "rejected"
        /\ calls[c].attempt.secondary = "rejected"

(***************************************************************************)
(* C3: when all three attempts have failed, getBestMove has thrown the     *)
(* terminal error and has returned nothing.                                *)
(***************************************************************************)
C3_AllFailedThrows ==
    \A c \in DOMAIN calls :
        (\A p \in ProviderSet : calls[c].attempt[p] = "rejected") =>
            /\ calls[c].pc = "AllFailed"
            /\ calls[c].thrown = TerminalError
            /\ calls[c].returned = Undefined

C3_Witness ==
    \E c \in DOMAIN calls :
        /\ \A p \in ProviderSet : calls[c].attempt[p] = "rejected"
        /\ calls[c].pc = "AllFailed"

(***************************************************************************)
(* C4: getBestMove throws only when every attempt has failed, what it      *)
(* throws is the terminal error, and no error of an adapter reaches the    *)
(* caller.                                                                 *)
(***************************************************************************)
C4_OnlyTerminalError ==
    \A c \in DOMAIN calls :
        /\ calls[c].pc # "Rejected"
        /\ calls[c].thrown # NoError =>
               /\ calls[c].thrown = TerminalError
               /\ \A p \in ProviderSet : calls[c].attempt[p] = "rejected"
               /\ calls[c].returned = Undefined
        /\ \A p \in ProviderSet :
               calls[c].failure[p] # NoError => calls[c].thrown # calls[c].failure[p]

C4_Witness ==
    \E c \in DOMAIN calls :
        /\ calls[c].failure.primary = "AbortError"
        /\ calls[c].failure.secondary = "Chess API Error"
        /\ calls[c].failure.tertiary = "TypeError"
        /\ calls[c].thrown = TerminalError

(***************************************************************************)
(* C5: every result an adapter resolves with, and so every result          *)
(* getBestMove returns, has at least one element in top_lines.             *)
(***************************************************************************)
C5_LinesNonEmpty ==
    \A c \in DOMAIN calls :
        /\ IsResult(calls[c].returned) => Len(calls[c].returned.top_lines) >= 1
        /\ \A p \in ProviderSet :
               IsResult(calls[c].adapterResult[p]) =>
                   Len(calls[c].adapterResult[p].top_lines) >= 1

\* the lines mode of the tertiary skipped its first entry and kept the second
C5_Witness ==
    \E c \in DOMAIN calls :
        /\ calls[c].attempt.tertiary = "resolved"
        /\ IsResult(calls[c].returned)
        /\ Len(calls[c].returned.top_lines) = 1
        /\ calls[c].returned.top_lines[1].id = Whole(2)

(***************************************************************************)
(* C6: in every result getBestMove returns, best_move is the move of the   *)
(* first line and evaluation is the evaluation of the first line.          *)
(***************************************************************************)
C6_BestMoveIsFirstLine ==
    \A c \in DOMAIN calls :
        (IsResult(calls[c].returned) /\ Len(calls[c].returned.top_lines) >= 1) =>
            /\ calls[c].returned.best_move = calls[c].returned.top_lines[1].move
            /\ calls[c].returned.evaluation = calls[c].returned.top_lines[1].evaluation

\* the wait for the primary response is timed, and an aborted primary attempt
\* is a failed one that never yields a result
C7_TimerGuardsPrimary ==
    \A c \in DOMAIN calls :
        /\ calls[c].pc = "primary_fetch" =>
               /\ calls[c].timer.primary.armed
               /\ calls[c].timer.primary.left <= PrimaryTimeoutMs
        /\ calls[c].aborted.primary =>
               /\ calls[c].attempt.primary = "rejected"
               /\ calls[c].failure.primary = "AbortError"
               /\ calls[c].adapterResult.primary = Undefined
               /\ calls[c].net.primary \in {"aborted", "dropped"}
               /\ calls[c].attempt.secondary # "idle"

\* the step in which the primary controller is aborted
C7_AbortStep ==
    \A c \in DOMAIN calls :
        (~calls[c].aborted.primary /\ calls'[c].aborted.primary) =>
            /\ calls[c].pc = "primary_fetch"
            /\ calls[c].timer.primary.left = 0
            /\ calls'[c].pc = "secondary_fetch"
            /\ calls'[c].attempt.secondary = "running"
            /\ calls'[c].requests = Append(calls[c].requests,
                                           calls'[c].requests[Len(calls'[c].requests)])
            /\ calls'[c].requests[Len(calls'[c].requests)].to = "secondary"
            /\ calls'[c].log = Append(calls[c].log, LogEvent("primary"))

\* the step in which the response to the aborted primary request arrives
C7_LateResponseStep ==
    \A c \in DOMAIN calls :
        (calls[c].net.primary = "aborted" /\ calls'[c].net.primary # "aborted") =>
            calls'[c] = [calls[c] EXCEPT !.net.primary = "dropped"]

(***************************************************************************)
(* C7: while getBestMove waits for the primary response the 8000 ms timer  *)
(* is armed; the abort happens only when the timer is due, it fails the    *)
(* primary attempt and starts the secondary one in the same step; and the  *)
(* response that arrives after the abort changes nothing but the state of  *)
(* the aborted exchange: the primary adapter never resolves.               *)
(***************************************************************************)
C7_PrimaryTimeoutAdvances ==
    /\ []C7_TimerGuardsPrimary
    /\ [][C7_AbortStep /\ C7_LateResponseStep]_vars

\* the primary timed out, its late response arrived while the secondary was
\* awaited, and the call ended with the result of the secondary
C7_Witness ==
    \E c \in DOMAIN calls :
        /\ calls[c].failure.primary = "AbortError"
        /\ calls[c].net.primary = "dropped"
        /\ calls[c].attempt.secondary = "resolved"
        /\ calls[c].returned = calls[c].adapterResult.secondary
        /\ IsResult(calls[c].returned)

\* a request that awaits its response has an armed timer behind it
C8_EveryRequestHasATimer ==
    \A c \in DOMAIN calls :
        /\ calls[c].net.primary = "inflight" => calls[c].timer.primary.armed
        /\ calls[c].net.secondary = "inflight" => calls[c].timer.secondary.armed
        /\ (calls[c].net.lines = "inflight" \/ calls[c].net.bestmove = "inflight") =>
               \E p \in TimedSet : calls[c].timer[p].armed

(***************************************************************************)
(* C8: every request that awaits its response is guarded by an armed       *)
(* timer, and every call ends in Succeeded or AllFailed.                   *)
(***************************************************************************)
C8_EveryCallTerminates ==
    /\ []C8_EveryRequestHasATimer
    /\ \A c \in CallIds : <>Terminated(calls[c])

\* each adapter is invoked at most once, and at most three in all
C9_AtMostOnce ==
    \A c \in DOMAIN calls :
        /\ Len(calls[c].started) <= 3
        /\ \A p \in ProviderSet :
               /\ Cardinality(Invocations(calls[c], p)) <= 1
               /\ calls[c].attempt[p] = "idle" <=> Invocations(calls[c], p) = {}

\* a step leaves a rejected adapter rejected, not invoked again, with no new request
C9_RejectedStaysRejected ==
    \A c \in DOMAIN calls : \A p \in ProviderSet :
        calls[c].attempt[p] = "rejected" =>
            /\ calls'[c].attempt[p] = "rejected"
            /\ Invocations(calls'[c], p) = Invocations(calls[c], p)
            /\ RequestsTo(calls'[c], p) = RequestsTo(calls[c], p)

(***************************************************************************)
(* C9: no adapter is invoked twice in one call, an adapter that has been   *)
(* rejected stays rejected, and at most three attempts are made.           *)
(***************************************************************************)
C9_NoRetry == []C9_AtMostOnce /\ [][C9_RejectedStaysRejected]_vars

C9_Witness ==
    \E c \in DOMAIN calls :
        /\ calls[c].started = Order
        /\ \A p \in ProviderSet : calls[c].attempt[p] = "rejected"

(***************************************************************************)
(* C10 as stated: at most one HTTP request goes to any one provider in a   *)
(* call.                                                                   *)
(***************************************************************************)
C10_OneRequestPerProvider ==
    \A c \in DOMAIN calls : \A p \in ProviderSet :
        Cardinality(RequestsTo(calls[c], p)) <= 1

(***************************************************************************)
(* C10 as amended: an adapter that has been invoked has sent a request;    *)
(* at most one request goes to the primary and to the secondary provider;  *)
(* at most two go to the tertiary, one in lines mode and, only after the   *)
(* body of the lines response has been decoded, one in bestmove mode.      *)
(***************************************************************************)
C10_RequestsPerProvider ==
    \A c \in DOMAIN calls :
        /\ \A p \in ProviderSet :
               calls[c].attempt[p] # "idle" => RequestsTo(calls[c], p) # {}
        /\ Cardinality(RequestsTo(calls[c], "primary")) <= 1
        /\ Cardinality(RequestsTo(calls[c], "secondary")) <= 1
        /\ Cardinality(RequestsInMode(calls[c], "lines")) <= 1
        /\ Cardinality(RequestsInMode(calls[c], "bestmove")) <= 1
        /\ RequestsTo(calls[c], "tertiary") =
               RequestsInMode(calls[c], "lines") \cup RequestsInMode(calls[c], "bestmove")
        /\ RequestsInMode(calls[c], "bestmove") # {} =>
               /\ RequestsInMode(calls[c], "lines") # {}
               /\ calls[c].net.lines = "done"

C10_Witness ==
    \E c \in DOMAIN calls :
        /\ Cardinality(RequestsTo(calls[c], "tertiary")) = 2
        /\ calls[c].pc = "Succeeded"

\* the log holds one event per rejected attempt, in the order of the attempts,
\* and a call that succeeded at the i-th provider holds i-1 of them
C11_FailureEvents ==
    \A c \in DOMAIN calls :
        LET rejected == {p \in ProviderSet : calls[c].attempt[p] = "rejected"}
        IN  /\ Len(calls[c].log) = Cardinality(rejected)
            /\ \A i \in 1..Len(calls[c].log) :
                   /\ calls[c].log[i].provider = Order[i]
                   /\ Order[i] \in rejected
            /\ \A p \in ProviderSet :
                   calls[c].attempt[p] = "resolved" =>
                       /\ Len(calls[c].log) = Position(p) - 1
                       /\ calls[c].returned = calls[c].adapterResult[p]

\* an event is emitted only in a step that rejects the running attempt, and
\* the step that starts the next attempt is the one that emits the event of
\* the attempt before it
C11_LogStep ==
    \A c \in DOMAIN calls :
        /\ calls'[c].log # calls[c].log =>
               \E p \in ProviderSet :
                   /\ calls[c].attempt[p] = "running"
                   /\ calls'[c].attempt[p] = "rejected"
                   /\ calls'[c].log = Append(calls[c].log, calls'[c].log[Len(calls'[c].log)])
                   /\ calls'[c].log[Len(calls'[c].log)].provider = p
        /\ \A q \in {"secondary", "tertiary"} :
               (calls[c].attempt[q] = "idle" /\ calls'[c].attempt[q] # "idle") =>
                   LET p == Order[Position(q) - 1]
                   IN  /\ calls[c].attempt[p] = "running"
                       /\ calls'[c].attempt[p] = "rejected"
                       /\ Len(calls'[c].log) = Len(calls[c].log) + 1
                       /\ calls'[c].log[Len(calls'[c].log)].provider = p

(***************************************************************************)
(* C11: a call that succeeds at the i-th provider returns that adapter's   *)
(* result and has logged exactly i-1 failure events (two when the tertiary *)
(* succeeds), one per failed attempt, each emitted in the step that ends   *)
(* the failed attempt and before the next attempt is started.              *)
(***************************************************************************)
C11_FailuresLogged == []C11_FailureEvents /\ [][C11_LogStep]_vars

C11_Witness ==
    \E c \in DOMAIN calls :
        /\ calls[c].attempt.primary = "rejected"
        /\ calls[c].attempt.secondary = "rejected"
        /\ calls[c].attempt.tertiary = "resolved"
        /\ calls[c].returned = calls[c].adapterResult.tertiary
        /\ IsResult(calls[c].returned)
        /\ Len(calls[c].log) = 2

\* the events of a call at a given severity
EventsAt(call, level) == {i \in 1..Len(call.log) : call.log[i].level = level}

(***************************************************************************)
(* C12: every failed attempt after which another provider is tried is      *)
(* logged at warning severity; exhaustion is logged at error severity      *)
(* exactly once in a call whose three attempts failed and never otherwise, *)
(* so a call that returns a result has no event of error severity.         *)
(***************************************************************************)
C12_LogSeverities ==
    \A c \in DOMAIN calls :
        /\ Cardinality(EventsAt(calls[c], "warn")) =
               Cardinality({p \in {"primary", "secondary"} :
                               calls[c].attempt[p] = "rejected"})
        /\ Cardinality(EventsAt(calls[c], "error")) =
               (IF \A p \in ProviderSet : calls[c].attempt[p] = "rejected" THEN 1 ELSE 0)
        /\ EventsAt(calls[c], "warn") \cup EventsAt(calls[c], "error")
               = 1..Len(calls[c].log)
        /\ IsResult(calls[c].returned) => EventsAt(calls[c], "error") = {}

C12_Witness ==
    \E c \in DOMAIN calls :
        /\ calls[c].pc = "AllFailed"
        /\ Len(calls[c].log) = 3
        /\ calls[c].log[1].level = "warn"
        /\ calls[c].log[2].level = "warn"
        /\ calls[c].log[3].level = "error"

\* the largest depth each provider is sent according to the request bodies;
\* the primary body carries no Math.min, the loosest ceiling of the other two
\* providers stands in for it
Ceiling(p) ==
    CASE p = "primary" -> Whole(SecondaryMaxDepth)
      [] p = "secondary" -> Whole(SecondaryMaxDepth)
      [] p = "tertiary" -> Whole(TertiaryMaxDepth)

\* the depth of one request is the caller's depth clamped to the ceiling
DepthClamped(call, r) ==
    /\ r.depth.m <= Ceiling(r.to).m
    /\ call.depth.m <= Ceiling(r.to).m => r.depth = call.depth

\* the part of C13 the code keeps: the secondary and tertiary requests
SecondaryTertiaryClamped ==
    \A c \in DOMAIN calls : \A i \in 1..Len(calls[c].requests) :
        calls[c].requests[i].to # "primary" =>
            DepthClamped(calls[c], calls[c].requests[i])

(***************************************************************************)
(* C13: the depth of every outgoing request, to any of the three           *)
(* providers, is the caller's depth clamped to the provider's ceiling:     *)
(* never above the ceiling, and unchanged when at or below it.             *)
(***************************************************************************)
C13_DepthClampedPerProvider ==
    \A c \in DOMAIN calls : \A i \in 1..Len(calls[c].requests) :
        DepthClamped(calls[c], calls[c].requests[i])

\* the adapter that issues each request
Issuer(r) == IF r \in {"lines", "bestmove"} THEN "tertiary" ELSE r

\* the responses that arrived with a non-success status
FailedStatus(call) == {r \in RequestSet : call.status[r] = "error"}

(***************************************************************************)
(* C14: a response with a non-success HTTP status, to any of the four      *)
(* requests, fails the attempt that issued it: that attempt never resolves *)
(* and no EngineResponse is built from it.                                 *)
(***************************************************************************)
C14_BadStatusFailsAttempt ==
    \A c \in DOMAIN calls : \A r \in FailedStatus(calls[c]) :
        /\ calls[c].attempt[Issuer(r)] # "resolved"
        /\ ~IsResult(calls[c].adapterResult[Issuer(r)])

\* the part of C14 the code keeps: the three requests whose adapter reads
\* response.ok are rejected in the step in which the status arrives
CheckedStatusFailsAttempt ==
    \A c \in DOMAIN calls : \A r \in FailedStatus(calls[c]) \ {"bestmove"} :
        calls[c].attempt[Issuer(r)] = "rejected"

\* a move that is present: a string of at least one character
IsMove(v) == v.t = "string" /\ v.s # <<>>

(***************************************************************************)
(* C15: a response without a usable best move fails the attempt: in every  *)
(* result getBestMove returns, best_move and the move of every line are    *)
(* present and are not the empty string.                                   *)
(***************************************************************************)
C15_MovesPresent ==
    \A c \in DOMAIN calls :
        IsResult(calls[c].returned) =>
            /\ IsMove(calls[c].returned.best_move)
            /\ \A k \in 1..Len(calls[c].returned.top_lines) :
                   IsMove(calls[c].returned.top_lines[k].move)

\* the part of C15 the code keeps: the secondary adapter and the lines mode
\* of the tertiary adapter return present moves only
CheckedMovesPresent ==
    \A c \in DOMAIN calls :
        LET result == calls[c].returned
        IN  (/\ IsResult(result)
             /\ \/ calls[c].attempt.secondary = "resolved"
                \/ /\ calls[c].attempt.tertiary = "resolved"
                   /\ calls[c].net.bestmove = "none") =>
                /\ IsMove(result.best_move)
                /\ \A k \in 1..Len(result.top_lines) : IsMove(result.top_lines[k].move)

(***************************************************************************)
(* C19: in every result getBestMove returns, the value of the evaluation   *)
(* and the value of the evaluation of every line is an integer: never a    *)
(* fraction and never NaN.                                                 *)
(***************************************************************************)
C19_ScoresAreIntegers ==
    \A c \in DOMAIN calls :
        IsResult(calls[c].returned) =>
            /\ IsInteger(calls[c].returned.evaluation.value)
            /\ \A k \in 1..Len(calls[c].returned.top_lines) :
                   IsInteger(calls[c].returned.top_lines[k].evaluation.value)

\* the text left of a score string once its marker atoms are taken out
RECURSIVE WithoutMarkers(_)
WithoutMarkers(s) ==
    IF s = <<>> THEN <<>>
    ELSE IF Head(s) \in Markers THEN WithoutMarkers(Tail(s))
    ELSE <<Head(s)>> \o WithoutMarkers(Tail(s))

\* a score whose numeric part cannot be parsed: no number, and no text that
\* starts with a numeral once the markers and the blanks around are stripped
Unparsable(score) ==
    CASE score.t = "string" ->
             LET rest == Trim(WithoutMarkers(score.s))
             IN  rest = <<>> \/ ~IsNumeral(Head(rest))
      [] score.t = "number" -> FALSE
      [] OTHER -> TRUE

\* the part of C16 the code keeps: an unparsable score without the mate
\* marker normalizes to centipawn 0
UnparsableWithoutMateIsZero ==
    (/\ probe.fn = "parseScoreStandard"
     /\ probe.pc # "input"
     /\ Unparsable(probe.input)
     /\ ~(probe.input.t = "string" /\ Includes(toLowerCase(probe.input.s), "mate"))) =>
        probe.output = Evaluation("cp", Num(0))

(***************************************************************************)
(* C16: parseScoreStandard never raises, and every input whose numeric     *)
(* part cannot be parsed once the known marker is stripped, a string with  *)
(* the mate marker and no integer included, normalizes to centipawn 0.     *)
(***************************************************************************)
C16_UnparsableIsCentipawnZero ==
    (probe.fn = "parseScoreStandard" /\ probe.pc # "input") =>
        /\ probe.pc = "done"
        /\ Unparsable(probe.input) => probe.output = Evaluation("cp", Num(0))

\* round(p * 100) of a decimal pawn score p held in thousandths: the nearest
\* whole number of centipawns, halves towards +Infinity
Centipawns(p) == Whole((p.m + 5) \div 10)

\* a decimal pawn score written as text: one numeral, blanks around it
IsDecimalText(s) == Len(Trim(s)) = 1 /\ IsNumeral(Trim(s)[1])

\* the part of C17 the code keeps: the conversion of fetchCustomAPI
PrimaryConvertsPawns ==
    (/\ probe.fn = "CustomLine"
     /\ probe.pc = "done"
     /\ probe.input.score_type # Str(<<"mate">>)
     /\ probe.input.score.t = "number") =>
        probe.output.evaluation = Evaluation("cp", Centipawns(probe.input.score))

(***************************************************************************)
(* C17: a decimal pawn score p of a non-mate evaluation is normalized to   *)
(* centipawn round(p * 100), by the per-variation conversion of the        *)
(* primary adapter and by parseScoreStandard, for p given as a number or   *)
(* as decimal text.                                                        *)
(***************************************************************************)
C17_PawnsToCentipawns ==
    /\ PrimaryConvertsPawns
    /\ (probe.fn = "parseScoreStandard" /\ probe.pc = "done") =>
           /\ probe.input.t = "number" =>
                  probe.output = Evaluation("cp", Centipawns(probe.input))
           /\ (probe.input.t = "string" /\ IsDecimalText(probe.input.s)) =>
                  probe.output =
                      Evaluation("cp", Centipawns(Num(NumeralValue[Trim(probe.input.s)[1]])))

\* the numerals that are signed integers
IsIntegerNumeral(a) == IsNumeral(a) /\ NumeralValue[a] % Scale = 0

\* the mate marker in any letter case, blanks or none, a signed integer
IsMateText(s) ==
    /\ Len(s) >= 2
    /\ s[1] \in {"mate", "Mate", "MATE"}
    /\ IsIntegerNumeral(s[Len(s)])
    /\ \A i \in 2..(Len(s) - 1) : s[i] \in Whitespace

(***************************************************************************)
(* C18: a score text made of the mate marker, in any letter case, and a    *)
(* signed integer d normalizes to exactly {mate, d}: the sign is kept and  *)
(* the distance is not clamped.                                            *)
(***************************************************************************)
C18_MateDistanceKept ==
    (/\ probe.fn = "parseScoreStandard"
     /\ probe.pc = "done"
     /\ probe.input.t = "string"
     /\ IsMateText(probe.input.s)) =>
        probe.output =
            Evaluation("mate", Num(NumeralValue[probe.input.s[Len(probe.input.s)]]))

C18_Witness ==
    /\ probe.fn = "parseScoreStandard"
    /\ probe.pc = "done"
    /\ probe.input = Str(<<"MATE", " ", "-3">>)
    /\ probe.output = Evaluation("mate", Whole(-3))

\* the words of a text: its atoms that are not whitespace
RECURSIVE Words(_)
Words(s) ==
    IF s = <<>> THEN <<>>
    ELSE IF Head(s) \in Whitespace THEN Words(Tail(s))
    ELSE <<Head(s)>> \o Words(Tail(s))

\* no two words of the text touch: each is delimited by whitespace
Delimited(s) ==
    \A i \in 1..(Len(s) - 1) : s[i] \in Whitespace \/ s[i + 1] \in Whitespace

\* optional whitespace, the label bestmove, whitespace, a coordinate move and
\* whitespace-separated annotations
IsProtocolLine(s) ==
    /\ Delimited(s)
    /\ Len(Words(s)) >= 2
    /\ Words(s)[1] = "bestmove"
    /\ Words(s)[2] = "e2e4"

HasWhitespace(s) == \E i \in 1..Len(s) : s[i] \in Whitespace

\* the part of C20 the code keeps: the lines whose only whitespace is the
\* space character
SpacedLineIsSanitized ==
    (/\ probe.fn = "cleanMove"
     /\ probe.pc \in {"done", "again"}
     /\ probe.input.t = "string"
     /\ IsProtocolLine(probe.input.s)
     /\ \A i \in 1..Len(probe.input.s) : probe.input.s[i] # "\t") =>
        /\ probe.output = Str(<<"e2e4">>)
        /\ probe.pc = "again" => probe.again = probe.output

(***************************************************************************)
(* C20: for a raw move made of optional whitespace, the label bestmove,    *)
(* whitespace, a coordinate move and whitespace-separated annotations,     *)
(* cleanMove returns exactly the coordinate move; its output holds no      *)
(* whitespace, and cleanMove applied to the output returns it unchanged.   *)
(***************************************************************************)
C20_ProtocolLineSanitized ==
    (/\ probe.fn = "cleanMove"
     /\ probe.pc \in {"done", "again"}
     /\ probe.input.t = "string"
     /\ IsProtocolLine(probe.input.s)) =>
        /\ probe.output = Str(<<Words(probe.input.s)[2]>>)
        /\ ~HasWhitespace(probe.output.s)
        /\ probe.pc = "again" => probe.again = probe.output

\* a call record seen without its timers
Untimed(call) == [call EXCEPT !.timer = [p \in TimedSet |-> TimerOff]]

\* a step that is more than the passing of time changes one call only, and
\* the passing of time changes nothing but the time left on each timer
C21_OneCallPerStep ==
    \A c, d \in DOMAIN calls :
        (c # d /\ Untimed(calls'[c]) # Untimed(calls[c])) => calls'[d] = calls[d]

\* a controller that aborts, and an attempt that fails, belong to the call
\* whose record the step changes: the other call keeps every attempt
C21_AbortIsLocal ==
    \A c, d \in DOMAIN calls :
        (c # d /\ \E p \in TimedSet : calls'[c].aborted[p] /\ ~calls[c].aborted[p]) =>
            /\ calls'[d].aborted = calls[d].aborted
            /\ calls'[d].attempt = calls[d].attempt
            /\ calls'[d].net = calls[d].net

\* every request a call sends carries that call's position and depth, and
\* what it returns is what one of its own adapters resolved with
C21_OwnArguments ==
    \A c \in DOMAIN calls :
        /\ \A i \in 1..Len(calls[c].requests) :
               /\ calls[c].requests[i].fen = calls[c].fen
               /\ calls[c].requests[i].depth.m <= calls[c].depth.m
        /\ IsResult(calls[c].returned) =>
               \E p \in ProviderSet :
                   /\ calls[c].attempt[p] = "resolved"
                   /\ calls[c].returned = calls[c].adapterResult[p]

(***************************************************************************)
(* C21: two getBestMove calls in flight together do not influence each     *)
(* other under any interleaving: every step of one call leaves the record  *)
(* of the other as it was, a timeout or abort in one call never aborts or  *)
(* fails an attempt of the other, and each call sends its own arguments    *)
(* and returns what its own adapter resolved with.                         *)
(***************************************************************************)
C21_CallsAreIndependent ==
    /\ []C21_OwnArguments
    /\ [][C21_OneCallPerStep /\ C21_AbortIsLocal]_vars

\* the primary attempt of the first call has timed out and its secondary
\* request is in flight, while the primary request of the second call, made
\* later, is in flight with its own timer running and its signal not aborted
C21_Witness ==
    /\ DOMAIN calls = ConcurrentIds
    /\ calls["first"].aborted.primary
    /\ calls["first"].failure.primary = "AbortError"
    /\ calls["first"].pc = "secondary_fetch"
    /\ calls["second"].pc = "primary_fetch"
    /\ calls["second"].timer.primary.armed
    /\ ~calls["second"].aborted.primary

\* a field the response carries: neither missing nor null
Carried(v) == v # Undefined /\ v # Null

\* a successful response of the secondary provider with a usable move,
\* decoded and turned into a result
SecondaryBuilt ==
    /\ probe.fn = "fetchChessApiCom"
    /\ probe.pc = "done"
    /\ probe.input.data.t = "object"
    /\ IsMove(probe.input.data.move)

\* the result is one line of rank 1 with the move of the response, and the
\* given score on the line and on the result
SingleLineResult(outcome, move, score) ==
    /\ outcome.kind = "resolved"
    /\ outcome.value.best_move = move
    /\ outcome.value.evaluation = score
    /\ outcome.value.top_lines = <<EngineLine(Whole(1), move, score)>>

\* the score as stated: mate k, or the evaluation e as it came, or 0
C22_SecondaryScoreAsSent ==
    SecondaryBuilt =>
        LET data == probe.input.data
        IN  SingleLineResult(probe.output, data.move,
                IF Carried(data.mate) THEN Evaluation("mate", data.mate)
                ELSE IF Carried(data.eval) THEN Evaluation("cp", data.eval)
                ELSE Evaluation("cp", Num(0)))

\* the nearest integer to e, halves towards +Infinity
Nearest(e) == Num(Scale * ((2 * e.m + Scale) \div (2 * Scale)))

(***************************************************************************)
(* C22: a successful secondary response with a usable move m gives a       *)
(* result with exactly one line of rank 1 and move m and best_move m; the  *)
(* score is mate k when the response carries a mate value k, and           *)
(* otherwise centipawn e for the evaluation e of the response rounded to   *)
(* the nearest integer, 0 when the evaluation is absent.                   *)
(***************************************************************************)
C22_SecondarySingleLine ==
    SecondaryBuilt =>
        LET data == probe.input.data
        IN  SingleLineResult(probe.output, data.move,
                IF Carried(data.mate) THEN Evaluation("mate", data.mate)
                ELSE IF Carried(data.eval) THEN Evaluation("cp", Nearest(data.eval))
                ELSE Evaluation("cp", Num(0)))

C22_Witness ==
    /\ SecondaryBuilt
    /\ probe.input.data.move = Str(<<"d1h5">>)
    /\ probe.input.data.mate = Whole(0)
    /\ probe.output.value.evaluation = Evaluation("mate", Whole(0))
    /\ Len(probe.output.value.top_lines) = 1

\* the ranks of the lines of a result, in the order of the lines
Ranks(result) == [k \in 1..Len(result.top_lines) |-> result.top_lines[k].id]

\* integers from 1 on, strictly increasing, the first one 1
RankedFromOne(ranks) ==
    /\ \A k \in 1..Len(ranks) : IsInteger(ranks[k]) /\ ranks[k].m >= Scale
    /\ \A k \in 1..(Len(ranks) - 1) : ranks[k].m < ranks[k + 1].m
    /\ Len(ranks) > 0 => ranks[1] = Whole(1)

\* the part of C23 the code keeps: the ranks of a tertiary result are
\* integers from 1 on and strictly increasing (the first need not be 1)
TertiaryRanksIncrease ==
    \A c \in DOMAIN calls :
        (IsResult(calls[c].returned) /\ calls[c].attempt.tertiary = "resolved") =>
            LET ranks == Ranks(calls[c].returned)
            IN  /\ \A k \in 1..Len(ranks) : IsInteger(ranks[k]) /\ ranks[k].m >= Scale
                /\ \A k \in 1..(Len(ranks) - 1) : ranks[k].m < ranks[k + 1].m

(***************************************************************************)
(* C23: in every result getBestMove returns, the lines are ordered by      *)
(* strictly increasing rank, every rank is an integer of at least 1, and   *)
(* the first line is the line of rank 1, whichever provider answered.      *)
(***************************************************************************)
C23_LinesOrderedByRank ==
    \A c \in DOMAIN calls :
        IsResult(calls[c].returned) => RankedFromOne(Ranks(calls[c].returned))

\* the first n entries of an array, n the number of lines asked for
FirstEntries(input) ==
    LET a == input.data.lines.a
        n == input.multipv.m \div Scale
    IN  [i \in 1..(IF n < Len(a) THEN n ELSE Len(a)) |-> a[i]]

\* a raw move that is empty, or a text that sanitizes to the empty string
IsNoMove(rawMove) == ~Truthy(rawMove) \/ (rawMove.t = "string" /\ cleanMove(rawMove) = Str(<<>>))

\* the sanitized moves of the entries that have one, in the order of the
\* entries
RECURSIVE UsableMoves(_)
UsableMoves(items) ==
    IF items = <<>> THEN <<>>
    ELSE (IF IsNoMove(Head(items).move) THEN <<>> ELSE <<cleanMove(Head(items).move)>>)
         \o UsableMoves(Tail(items))

\* a lines-mode response with a lines array, decoded and turned into an
\* outcome
LinesBuilt ==
    /\ probe.fn = "fetchStockfishOnline"
    /\ probe.pc = "done"
    /\ probe.input.data.t = "object"
    /\ IsArray(probe.input.data.lines)

\* every raw move among the first entries is a text or is missing
MovesAreTexts(items) ==
    \A i \in 1..Len(items) : items[i].move.t = "string" \/ ~Truthy(items[i].move)

\* the result holds exactly the sanitized moves of the entries that have
\* one, in response order, and the attempt fails exactly when there is none
SkipsToRemaining(items, outcome) ==
    IF \A i \in 1..Len(items) : IsNoMove(items[i].move)
    THEN outcome.kind = "rejected"
    ELSE /\ outcome.kind = "resolved"
         /\ [k \in 1..Len(outcome.value.top_lines) |-> outcome.value.top_lines[k].move]
                = UsableMoves(items)

\* the part of C24 the code keeps: the responses whose raw moves are texts
\* or are missing
TextMovesSkipped ==
    (LinesBuilt /\ MovesAreTexts(FirstEntries(probe.input))) =>
        SkipsToRemaining(FirstEntries(probe.input), probe.output)

(***************************************************************************)
(* C24: in the lines mode of the tertiary adapter an entry whose raw move  *)
(* is empty or sanitizes to the empty string is skipped without failing    *)
(* the attempt: the result holds exactly the other entries among the first *)
(* lineCount, in response order, and the attempt fails only when no entry  *)
(* remains.                                                                *)
(***************************************************************************)
C24_EmptyMovesSkipped ==
    LinesBuilt =>
        LET items == FirstEntries(probe.input)
        IN  /\ probe.output.kind = "rejected" =>
                   \A i \in 1..Len(items) : IsNoMove(items[i].move)
            /\ MovesAreTexts(items) => SkipsToRemaining(items, probe.output)

\* the body of the lines-mode response was decoded and has no lines array
NoLinesArray(call) ==
    /\ call.net.lines = "done"
    /\ call.body.lines.t = "object"
    /\ ~IsArray(call.body.lines.lines)

NeutralScore == Evaluation("cp", Num(0))

\* no lines array: the next request is the best-move-only one, with the
\* position of the call and the depth of the lines request; there is no
\* such request otherwise
C25_FallbackRequest ==
    \A c \in DOMAIN calls :
        LET sent == RequestsInMode(calls[c], "bestmove")
        IN  /\ NoLinesArray(calls[c]) =>
                   LET last == calls[c].requests[Len(calls[c].requests)]
                   IN  /\ last.mode = "bestmove"
                       /\ last.to = "tertiary"
                       /\ last.fen = calls[c].fen
                       /\ last.depth = MathMin(calls[c].depth, Whole(TertiaryMaxDepth))
                       /\ last.depth = calls[c].requests[Len(calls[c].requests) - 1].depth
                       /\ calls[c].requests[Len(calls[c].requests) - 1].mode = "lines"
            /\ sent # {} => NoLinesArray(calls[c])

\* the decoded body of the fallback decides the attempt
C25_FallbackResult ==
    \A c \in DOMAIN calls :
        calls[c].net.bestmove = "done" =>
            LET data == calls[c].body.bestmove
                result == calls[c].adapterResult.tertiary
            IN  /\ (data.t # "object" \/ ~Truthy(data.success) \/ ~Truthy(data.data)) =>
                       calls[c].attempt.tertiary = "rejected"
                /\ calls[c].attempt.tertiary = "resolved" =>
                       /\ calls[c].returned = result
                       /\ result.best_move = cleanMove(data.data)
                       /\ result.evaluation = NeutralScore
                       /\ result.top_lines =
                              <<EngineLine(Whole(1), cleanMove(data.data), NeutralScore)>>
                /\ calls[c].attempt.tertiary # "running"

HeadersAreTimed ==
    \A c \in DOMAIN calls : \A p \in TimedSet :
        (calls[c].attempt[p] = "running" /\ calls[c].net[p] = "inflight") =>
            calls[c].timer[p].armed

(***************************************************************************)
(* C26: in the primary and secondary adapters the 8000 ms timeout bounds   *)
(* the whole attempt: as long as the attempt runs, be it waiting for the   *)
(* response headers or for the body to be received and decoded, its timer  *)
(* is armed, so that the attempt is aborted when the time is up.           *)
(***************************************************************************)
C26_TimerCoversWholeAttempt ==
    \A c \in DOMAIN calls : \A p \in TimedSet :
        calls[c].attempt[p] = "running" =>
            /\ calls[c].timer[p].armed
            /\ calls[c].timer[p].left <= PrimaryTimeoutMs

\* a timer is armed only while its own attempt runs, and a controller has
\* aborted only its own request
C27_TimerOwnedByAttempt ==
    \A c \in DOMAIN calls : \A p \in TimedSet :
        /\ calls[c].timer[p].armed => calls[c].attempt[p] = "running"
        /\ calls[c].net[p] \in {"aborted", "dropped"} <=> calls[c].aborted[p]
        /\ calls[c].aborted[p] => calls[c].failure[p] = "AbortError"
        /\ \A r \in {"lines", "bestmove"} : calls[c].net[r] \notin {"aborted", "dropped"}

\* a timer fires only while its own attempt waits for the response, and the
\* step aborts no other request; the step that ends an attempt, however it
\* ends, leaves its timer disarmed
C27_TimeoutStep ==
    \A c \in DOMAIN calls : \A p \in TimedSet :
        /\ (~calls[c].aborted[p] /\ calls'[c].aborted[p]) =>
               /\ calls[c].attempt[p] = "running"
               /\ calls[c].net[p] = "inflight"
               /\ \A q \in TimedSet \ {p} :
                      /\ calls'[c].aborted[q] = calls[c].aborted[q]
                      /\ calls'[c].net[q] \notin {"aborted"} \/ calls[c].net[q] = "aborted"
        /\ (calls[c].attempt[p] = "running" /\ calls'[c].attempt[p] # "running") =>
               ~calls'[c].timer[p].armed

(***************************************************************************)
(* C27: cancellation is per attempt.  The timer of a primary or secondary  *)
(* attempt is armed only while that attempt runs and is disarmed on every  *)
(* path that ends it, so it never fires after the attempt; a timeout       *)
(* aborts the request of its own attempt only, never that of a later       *)
(* attempt of the call.                                                    *)
(***************************************************************************)
C27_CancellationPerAttempt ==
    /\ []C27_TimerOwnedByAttempt
    /\ [][C27_TimeoutStep]_vars

\* the primary attempt ended with a validation error, its timer never fired,
\* and the secondary attempt timed out on its own timer later
C27_Witness ==
    \E c \in DOMAIN calls :
        /\ calls[c].status.primary = "ok"
        /\ calls[c].attempt.primary = "rejected"
        /\ ~calls[c].aborted.primary
        /\ ~calls[c].timer.primary.armed
        /\ calls[c].aborted.secondary
        /\ calls[c].net.secondary = "aborted"
        /\ calls[c].attempt.tertiary = "running"

(***************************************************************************)
(* GameMode (src/components/GameMode.tsx): the game against the engine.    *)
(* A position is the list of moves replayed from the start position, so    *)
(* the FEN of gameForDisplay is modelled by that list; the side to move    *)
(* alternates from white.  A position of MaxPlies moves stands for a       *)
(* finished game (checkmate or draw).  Every handler is one step: the      *)
(* batched state updates, then the renders and their effects until the     *)
(* state settles.  statusMessage, arrows, moveQualities and boardWidth     *)
(* are display only and feed nothing below; startFen is always             *)
(* DEFAULT_FEN.  The field game.runs holds the executions of the AI effect *)
(* whose request or delayed move is still outstanding, each with the       *)
(* values its closure captured and its isCancelled flag.                   *)
(***************************************************************************)
MaxPlies == 2

MaxGames == 2

Colors == {"w", "b"}

AiStyles == {"balanced", "aggressive"}

BoardMoves == {"e", "d"}

RunSlots == 1 .. (MaxGames + 2)

DEFAULT_FEN == <<>>

\* gameForDisplay: the moves 0..currentMoveIndex replayed on the start position
gameForDisplay(g) == SubSeq(g.moveHistory, 1, g.currentMoveIndex + 1)

\* gameForDisplay.turn()
TurnOf(position) == IF Len(position) % 2 = 0 THEN "w" ELSE "b"

\* gameForDisplay.isCheckmate() || gameForDisplay.isDraw()
IsFinished(position) == Len(position) >= MaxPlies

\* the state of a freshly mounted component, after its first effects
MountedGame ==
    [mounted |-> TRUE, playerColor |-> "w", moveHistory |-> <<>>,
     currentMoveIndex |-> -1, gameId |-> 0, fen |-> DEFAULT_FEN, turn |-> "w",
     isGameOver |-> FALSE, isAiThinking |-> FALSE, aiStyle |-> "balanced",
     runs |-> {}]

\* the dependency array of the AI effect
AiDeps(g) == <<g.turn, g.playerColor, g.isGameOver, g.fen, g.aiStyle>>

\* the effect that copies the derived position into fen, turn and isGameOver
SyncDerived(g) ==
    [g EXCEPT !.fen = gameForDisplay(g),
              !.turn = TurnOf(gameForDisplay(g)),
              !.isGameOver = g.isGameOver \/ IsFinished(gameForDisplay(g))]

\* the auto-scroll effect, which runs when moveHistory.length changed
AutoScroll(prev, g) ==
    IF Len(g.moveHistory) # Len(prev.moveHistory) THEN Len(g.moveHistory) - 1
    ELSE g.currentMoveIndex

\* the cleanup of the previous execution of the AI effect
CancelRuns(runs) == {[r EXCEPT !.cancelled = TRUE] : r \in runs}

FreeSlot(runs) == CHOOSE i \in RunSlots :
    /\ \A r \in runs : r.id # i
    /\ \A j \in RunSlots : (j < i) => (\E r \in runs : r.id = j)

\* what an execution of the AI effect keeps in its closure
NewRun(g, runs) ==
    [id |-> FreeSlot(runs), fen |-> g.fen, turn |-> g.turn,
     playerColor |-> g.playerColor, gameId |-> g.gameId,
     moveHistory |-> g.moveHistory, currentMoveIndex |-> g.currentMoveIndex,
     isGameOver |-> g.isGameOver, aiStyle |-> g.aiStyle,
     cancelled |-> FALSE, stage |-> "request", move |-> "none"]

AiEffectReturnsEarly(g) == g.isGameOver \/ g.isAiThinking \/ g.turn = g.playerColor

\* the effects of one render of state g, the render before it having seen prev
Effects(prev, g) ==
    LET synced == SyncDerived(g)
        rerun == AiDeps(prev) # AiDeps(g)
        cleaned == IF rerun THEN CancelRuns(g.runs) ELSE g.runs
        starts == rerun /\ ~AiEffectReturnsEarly(g)
    IN  [synced EXCEPT
            !.currentMoveIndex = AutoScroll(prev, g),
            !.isAiThinking = IF starts THEN TRUE ELSE g.isAiThinking,
            !.runs = IF starts THEN cleaned \cup {NewRun(g, cleaned)} ELSE cleaned]

\* renders and effects until no effect changes the state any more
RECURSIVE Commit(_, _)
Commit(prev, g) ==
    LET next == Effects(prev, g)
    IN  IF next = g THEN g ELSE Commit(g, next)

\* one event: the handler's batched updates, then the renders that follow
Rendered(updated) == Commit(game, updated)

\* onMove: the history up to the displayed move, then the new move
onMove(history, index, move) == Append(SubSeq(history, 1, index + 1), move)

PlayerMove(move) ==
    /\ game.mounted
    /\ ~game.isGameOver
    /\ game.turn = game.playerColor
    /\ ~IsFinished(gameForDisplay(game))
    /\ game' = Rendered([game EXCEPT
                  !.moveHistory = onMove(game.moveHistory, game.currentMoveIndex, move)])
    /\ UNCHANGED <<calls, probe, panel>>

goToFirst ==
    /\ game.mounted
    /\ game.currentMoveIndex # -1
    /\ game' = Rendered([game EXCEPT !.currentMoveIndex = -1])
    /\ UNCHANGED <<calls, probe, panel>>

goToPrev ==
    /\ game.mounted
    /\ game.currentMoveIndex # -1
    /\ game' = Rendered([game EXCEPT !.currentMoveIndex = game.currentMoveIndex - 1])
    /\ UNCHANGED <<calls, probe, panel>>

goToNext ==
    /\ game.mounted
    /\ game.currentMoveIndex < Len(game.moveHistory) - 1
    /\ game' = Rendered([game EXCEPT !.currentMoveIndex = game.currentMoveIndex + 1])
    /\ UNCHANGED <<calls, probe, panel>>

goToLast ==
    /\ game.mounted
    /\ game.currentMoveIndex < Len(game.moveHistory) - 1
    /\ game' = Rendered([game EXCEPT !.currentMoveIndex = Len(game.moveHistory) - 1])
    /\ UNCHANGED <<calls, probe, panel>>

resetGame(color) ==
    /\ game.mounted
    /\ game.gameId < MaxGames
    /\ game' = Rendered([game EXCEPT
                  !.playerColor = color,
                  !.moveHistory = <<>>,
                  !.currentMoveIndex = -1,
                  !.isGameOver = FALSE,
                  !.isAiThinking = FALSE,
                  !.gameId = game.gameId + 1])
    /\ UNCHANGED <<calls, probe, panel>>

\* a clock of the running game reaches zero
handleTimeout ==
    /\ game.mounted
    /\ ~game.isGameOver
    /\ game' = Rendered([game EXCEPT !.isGameOver = TRUE])
    /\ UNCHANGED <<calls, probe, panel>>

\* the settings dialog hands the component another AI style
StyleChanges(style) ==
    /\ game.mounted
    /\ style # game.aiStyle
    /\ game' = Rendered([game EXCEPT !.aiStyle = style])
    /\ UNCHANGED <<calls, probe, panel>>

\* getBestMove resolves with a result that has lines: the move is scheduled
\* 10 seconds ahead, unless the execution was cancelled
EngineResolves(r, move) ==
    /\ game.mounted
    /\ r \in game.runs
    /\ r.stage = "request"
    /\ game' = [game EXCEPT !.runs =
                  IF r.cancelled THEN game.runs \ {r}
                  ELSE (game.runs \ {r}) \cup {[r EXCEPT !.stage = "delay", !.move = move]}]
    /\ UNCHANGED <<calls, probe, panel>>

\* getBestMove rejects
EngineRejects(r) ==
    /\ game.mounted
    /\ r \in game.runs
    /\ r.stage = "request"
    /\ game' = Rendered([game EXCEPT
                  !.runs = game.runs \ {r},
                  !.isAiThinking = IF r.cancelled THEN game.isAiThinking ELSE FALSE])
    /\ UNCHANGED <<calls, probe, panel>>

\* the position the closure of execution r replays
ClosurePosition(r) == SubSeq(r.moveHistory, 1, r.currentMoveIndex + 1)

\* the 10-second timer fires: onMove(from, to, true) with the values of the
\* render that started the execution.  The move is legal in the position
\* it was computed for; elsewhere chess.js may accept or reject it.
DelayFires(r, legal) ==
    /\ game.mounted
    /\ r \in game.runs
    /\ r.stage = "delay"
    /\ (ClosurePosition(r) = r.fen) => legal
    /\ LET applies == ~r.isGameOver /\ legal /\ ~IsFinished(ClosurePosition(r))
           fired == [game EXCEPT
                        !.runs = game.runs \ {r},
                        !.moveHistory = IF applies
                                        THEN onMove(r.moveHistory, r.currentMoveIndex, r.move)
                                        ELSE game.moveHistory,
                        !.isAiThinking = FALSE]
       IN  game' = IF r.cancelled THEN [game EXCEPT !.runs = game.runs \ {r}]
                   ELSE Rendered(fired)
    /\ UNCHANGED <<calls, probe, panel>>

GameInit ==
    /\ calls = [c \in CallIds |-> NewCall(StartFen, 10, 5)]
    /\ probe = [pc |-> "idle", fn |-> "none", input |-> Undefined, output |-> Undefined,
                again |-> Undefined]
    /\ game = MountedGame
    /\ panel = NoPanel

GameNext ==
    \/ \E move \in BoardMoves : PlayerMove(move)
    \/ goToFirst
    \/ goToPrev
    \/ goToNext
    \/ goToLast
    \/ \E color \in Colors : resetGame(color)
    \/ handleTimeout
    \/ \E style \in AiStyles : StyleChanges(style)
    \/ \E r \in game.runs, move \in BoardMoves : EngineResolves(r, move)
    \/ \E r \in game.runs : EngineRejects(r)
    \/ \E r \in game.runs, legal \in BOOLEAN : DelayFires(r, legal)

GameSpec == GameInit /\ [][GameNext]_vars

\* a pending promise settles and an armed timer fires; the user's events
\* need not happen
GameFairSpec ==
    /\ GameSpec
    /\ WF_vars(\E r \in game.runs, move \in BoardMoves : EngineResolves(r, move))
    /\ WF_vars(\E r \in game.runs : EngineRejects(r))
    /\ WF_vars(\E r \in game.runs, legal \in BOOLEAN : DelayFires(r, legal))

\* no execution of the AI effect has a request or a delayed move outstanding
NothingOutstanding == game.runs = {}

AiToMove == game.mounted /\ ~game.isGameOver /\ game.turn # game.playerColor

\* C28: in GameMode the AI-thinking flag is never left set without work
\* pending: whenever no engine request and no delayed AI move is outstanding
\* isAiThinking is false, and so whenever the game is not over and it is the
\* AI's turn, eventually the AI has moved (it is no longer its turn, or the
\* game is over) or a new request can start (isAiThinking is false).
C28_ThinkingFlagReleased ==
    /\ [](NothingOutstanding => ~game.isAiThinking)
    /\ (AiToMove ~> (~AiToMove \/ ~game.isAiThinking))

\* this step is the timer callback of execution r playing its move
AiMovePlayed(r) ==
    /\ r.stage = "delay"
    /\ ~r.cancelled
    /\ \A q \in game'.runs : ~(q.id = r.id /\ q.stage = "delay")
    /\ game'.moveHistory = onMove(r.moveHistory, r.currentMoveIndex, r.move)

\* the displayed position, the side to move, the player's colour and the
\* game are the ones execution r sent its request for
StillCurrent(r) ==
    /\ gameForDisplay(game) = r.fen
    /\ game.turn = r.turn
    /\ game.playerColor = r.playerColor
    /\ game.gameId = r.gameId

\* C29: in GameMode an AI move is played only if the position, the side to
\* move, the player's colour and the game are still the ones its engine
\* request was started for; after resetGame or a change of the displayed
\* position during the request or the delay the stale move is not played.
C29_StaleMoveNeverPlayed ==
    [][\A r \in game.runs : AiMovePlayed(r) => StillCurrent(r)]_vars

(***************************************************************************)
(* The analysis panels: GameStudy (src/components/GameStudy.tsx), which    *)
(* analyses every position it shows, and AICoach (src/unnamed/part_003),   *)
(* which analyses when its button is pressed.  A position is the number of *)
(* moves played on the study board; an engine result, and the arrows drawn *)
(* from it, are modelled by the position they were computed for.  The      *)
(* field pending holds the getBestMove calls in flight, each with the fen  *)
(* of the render that made it.  The Gemini texts (advice, geminiAnalysis)  *)
(* are not modelled.                                                       *)
(***************************************************************************)
MaxStudyMoves == 2

MaxPending == 2

StudyFens == 0 .. MaxStudyMoves

PendingSlots == 1 .. MaxPending

\* the EngineResponse getBestMove resolves with for position fen
EngineData(fen) == [t |-> "data", fen |-> fen]

\* the arrows handleCalculateMove draws from the first three lines
ArrowsFrom(data) == [t |-> "arrows", fen |-> data.fen]

NoArrows == [t |-> "arrows", fen |-> -1]

NewRequest(pending, fen) ==
    [id |-> CHOOSE i \in PendingSlots :
                /\ \A q \in pending : q.id # i
                /\ \A j \in PendingSlots : (j < i) => (\E q \in pending : q.id = j),
     fen |-> fen]

\* the first part of fetchAnalysis, up to the await
fetchAnalysis(study) ==
    [study EXCEPT !.analyzing = TRUE,
                  !.engineData = Null,
                  !.pending = study.pending \cup {NewRequest(study.pending, study.fen)}]

\* setFen and the effect on [fen], which runs when the fen has changed
StudyShows(fen) ==
    /\ panel.mounted
    /\ fen # panel.study.fen
    /\ Cardinality(panel.study.pending) < MaxPending
    /\ panel' = [panel EXCEPT !.study = fetchAnalysis([panel.study EXCEPT !.fen = fen])]
    /\ UNCHANGED <<calls, probe, game>>

StudyMove ==
    /\ panel.mounted
    /\ panel.study.fen < MaxStudyMoves
    /\ StudyShows(panel.study.fen + 1)

undoMove ==
    /\ panel.mounted
    /\ panel.study.fen > 0
    /\ StudyShows(panel.study.fen - 1)

resetBoard ==
    /\ panel.mounted
    /\ StudyShows(0)

\* fetchAnalysis after the await: setEngineData(data), then finally
AnalysisResolves(q) ==
    /\ panel.mounted
    /\ q \in panel.study.pending
    /\ panel' = [panel EXCEPT !.study.engineData = EngineData(q.fen),
                              !.study.analyzing = FALSE,
                              !.study.pending = panel.study.pending \ {q}]
    /\ UNCHANGED <<calls, probe, game>>

\* fetchAnalysis when getBestMove rejects: catch, then finally
AnalysisRejects(q) ==
    /\ panel.mounted
    /\ q \in panel.study.pending
    /\ panel' = [panel EXCEPT !.study.analyzing = FALSE,
                              !.study.pending = panel.study.pending \ {q}]
    /\ UNCHANGED <<calls, probe, game>>

\* AICoach: the parent shows another position; the reset effect on [fen]
\* clears engineData and error, and the parent clears its arrows
CoachShows(fen) ==
    /\ panel.mounted
    /\ fen # panel.coach.fen
    /\ panel' = [panel EXCEPT !.coach.fen = fen,
                              !.coach.engineData = Null,
                              !.coach.error = FALSE,
                              !.coach.arrows = NoArrows]
    /\ UNCHANGED <<calls, probe, game>>

\* the button is disabled while engineLoading
handleCalculateMove ==
    /\ panel.mounted
    /\ ~panel.coach.engineLoading
    /\ panel' = [panel EXCEPT
                    !.coach.engineLoading = TRUE,
                    !.coach.engineData = Null,
                    !.coach.error = FALSE,
                    !.coach.arrows = NoArrows,
                    !.coach.pending = panel.coach.pending
                        \cup {NewRequest(panel.coach.pending, panel.coach.fen)}]
    /\ UNCHANGED <<calls, probe, game>>

\* handleCalculateMove after the await
CalculationResolves(q) ==
    /\ panel.mounted
    /\ q \in panel.coach.pending
    /\ panel' = [panel EXCEPT
                    !.coach.engineData = EngineData(q.fen),
                    !.coach.arrows = ArrowsFrom(EngineData(q.fen)),
                    !.coach.engineLoading = FALSE,
                    !.coach.pending = panel.coach.pending \ {q}]
    /\ UNCHANGED <<calls, probe, game>>

CalculationRejects(q) ==
    /\ panel.mounted
    /\ q \in panel.coach.pending
    /\ panel' = [panel EXCEPT
                    !.coach.error = TRUE,
                    !.coach.engineLoading = FALSE,
                    !.coach.pending = panel.coach.pending \ {q}]
    /\ UNCHANGED <<calls, probe, game>>

\* both panels mounted on the start position; GameStudy's effect has
\* already started its first analysis
MountedPanel ==
    [mounted |-> TRUE,
     study |-> fetchAnalysis([fen |-> 0, engineData |-> Null, analyzing |-> FALSE,
                              pending |-> {}]),
     coach |-> [fen |-> 0, engineData |-> Null, engineLoading |-> FALSE,
                arrows |-> NoArrows, error |-> FALSE, pending |-> {}]]

PanelInit ==
    /\ calls = [c \in CallIds |-> NewCall(StartFen, 15, 3)]
    /\ probe = [pc |-> "idle", fn |-> "none", input |-> Undefined, output |-> Undefined,
                again |-> Undefined]
    /\ game = NoGame
    /\ panel = MountedPanel

PanelNext ==
    \/ StudyMove
    \/ undoMove
    \/ resetBoard
    \/ \E q \in panel.study.pending : AnalysisResolves(q)
    \/ \E q \in panel.study.pending : AnalysisRejects(q)
    \/ \E fen \in StudyFens : CoachShows(fen)
    \/ handleCalculateMove
    \/ \E q \in panel.coach.pending : CalculationResolves(q)
    \/ \E q \in panel.coach.pending : CalculationRejects(q)

PanelSpec == PanelInit /\ [][PanelNext]_vars

StudyDataIsCurrent ==
    (panel.study.engineData.t = "data" /\ ~panel.study.analyzing)
        => panel.study.engineData.fen = panel.study.fen

CoachDataIsCurrent ==
    (panel.coach.engineData.t = "data" /\ ~panel.coach.engineLoading)
        => /\ panel.coach.engineData.fen = panel.coach.fen
           /\ panel.coach.arrows \in {NoArrows, ArrowsFrom(EngineData(panel.coach.fen))}

\* C30: in GameStudy and AICoach, whenever engine data is displayed and no
\* analysis is in progress, the displayed data, and the arrows drawn from
\* it, were computed by getBestMove for the position now displayed: the
\* result for an older position never replaces or outlives the state of
\* the newer one.
C30_DisplayedDataIsCurrent == StudyDataIsCurrent /\ CoachDataIsCurrent

====
